---- MODULE Spec2Model ----
(***************************************************************************)
(* A model of the QIR -> OpenQASM 3 translator (qir2qasm_trans/qir_trans): *)
(* the symbol table, the builders, the CFG patterns, the block isolation  *)
(* helpers and the top-level QASM3Builder / Exporter.                      *)
(***************************************************************************)
EXTENDS Integers, Sequences, FiniteSets, TLC

VARIABLES
    symbols,       \* the SymbolTable: counters, I/O lists, block maps, cfg
    entry_block,   \* QASM3Builder.entry_block
    pc,            \* position of the translation
    is_updated,    \* the running pattern's local is_updated flag
    rewrites,      \* number of pattern rewrites / lowered instructions so far
    module,        \* the input module: its blocks, or its includes and declarations
    last,          \* what the last call returned
    stream,        \* the statements of the Program handed to the printer
    allocs,        \* history: the allocation calls made and what each returned
    locals         \* build_program's func_decl_statements, build_block's statements

vars == <<symbols, entry_block, pc, is_updated, rewrites, module, last, stream, allocs,
          locals>>

(***************************************************************************)
(* Bounds                                                                  *)
(***************************************************************************)
NumBlocks == 4
MaxCond == 1

(***************************************************************************)
(* Blocks, statements and branch metadata                                  *)
(***************************************************************************)
Blocks == 1..NumBlocks

\* ast.Expression used as a branch condition, in prefix form: <<>> is None,
\* <<b>> is the identifier tested by block b, <<0>> \o e is UnaryExpression('!', e).
None == <<>>

CondOf(b) == <<b>>

UnaryNot(e) == <<0>> \o e

BranchInfo(cond, tgts) == [branch_condition |-> cond, branch_targets |-> tgts]

\* An opaque lowered statement: the i-th statement of original block b.
Stmt(b, i) == [kind |-> "stmt", label |-> <<b, i>>, cond |-> None,
               block |-> <<>>, else_block |-> <<>>]

BranchingStatement(c, ifb, elseb) ==
    [kind |-> "if", label |-> <<>>, cond |-> c, block |-> ifb, else_block |-> elseb]

WhileLoop(c, body) ==
    [kind |-> "while", label |-> <<>>, cond |-> c, block |-> body, else_block |-> <<>>]

\* The statement list build_block records for original block b: blocks carry
\* 1, 2, 0, 1, 2, 0, ... statements, so empty and multi-statement blocks occur.
BlockStatements0(b) == [i \in 1..(b % 3) |-> Stmt(b, i)]

(***************************************************************************)
(* networkx.DiGraph                                                        *)
(***************************************************************************)
DiGraph(N, E) == [nodes |-> N, edges |-> E]

successors(G, n) == {v \in G.nodes : <<n, v>> \in G.edges}

predecessors(G, n) == {u \in G.nodes : <<u, n>> \in G.edges}

in_degree(G, n) == Cardinality(predecessors(G, n))

out_degree(G, n) == Cardinality(successors(G, n))

\* nx.contracted_nodes(G, u, v, self_loops=False): v's edges are moved to u,
\* the edges between u and v are dropped, v is removed.
Remap(x, u, v) == IF x = v THEN u ELSE x

\* A contraction that keeps v and deletes u
contracted_nodes_KeepV(G, u, v) ==
    DiGraph(G.nodes \ {u},
            {e \in G.edges : e[1] # u /\ e[2] # u}
            \cup {<<Remap(e[1], v, u), Remap(e[2], v, u)>> :
                    e \in {d \in G.edges : (d[1] = u \/ d[2] = u)
                                           /\ {d[1], d[2]} # {u, v}}})

contracted_nodes(G, u, v) ==
    DiGraph(G.nodes \ {v},
            {e \in G.edges : e[1] # v /\ e[2] # v}
            \cup {<<Remap(e[1], u, v), Remap(e[2], u, v)>> :
                    e \in {d \in G.edges : (d[1] = v \/ d[2] = v)
                                           /\ {d[1], d[2]} # {u, v}}})

remove_edge(G, u, v) == DiGraph(G.nodes, G.edges \ {<<u, v>>})

remove_node(G, v) ==
    DiGraph(G.nodes \ {v}, {e \in G.edges : e[1] # v /\ e[2] # v})

add_edge(G, u, v) == DiGraph(G.nodes \cup {u, v}, G.edges \cup {<<u, v>>})

(***************************************************************************)
(* Maps (Python dicts)                                                     *)
(***************************************************************************)
pop(f, k) == [x \in (DOMAIN f) \ {k} |-> f[x]]

put(f, k, v) == [x \in (DOMAIN f) \cup {k} |-> IF x = k THEN v ELSE f[x]]

(***************************************************************************)
(* CFGPattern: template sub-graph, degree constraints (-1 is None)         *)
(***************************************************************************)
Pattern(roles, edges, degrees) == [roles |-> roles, edges |-> edges, degrees |-> degrees]

SeqPattern ==
    Pattern({"A", "B"}, {<<"A", "B">>},
            [r \in {"A", "B"} |-> IF r = "A" THEN <<-1, 1>> ELSE <<1, -1>>])

IfPattern1 ==
    Pattern({"A", "B", "C", "D"},
            {<<"A", "B">>, <<"A", "C">>, <<"B", "D">>, <<"C", "D">>},
            [r \in {"A", "B", "C", "D"} |->
                CASE r = "A" -> <<-1, 2>>
                  [] r = "B" -> <<1, 1>>
                  [] r = "C" -> <<1, 1>>
                  [] OTHER -> <<-1, -1>>])

IfPattern2 ==
    Pattern({"A", "B", "D"},
            {<<"A", "B">>, <<"A", "D">>, <<"B", "D">>},
            [r \in {"A", "B", "D"} |->
                CASE r = "A" -> <<-1, 2>>
                  [] r = "B" -> <<1, 1>>
                  [] OTHER -> <<-1, -1>>])

WhilePattern1 ==
    Pattern({"A", "B"}, {<<"A", "B">>, <<"B", "A">>},
            [r \in {"A", "B"} |-> IF r = "A" THEN <<-1, 2>> ELSE <<1, 1>>])

WhilePattern2 ==
    Pattern({"A"}, {<<"A", "A">>}, [r \in {"A"} |-> <<-1, 2>>])

\* The degree test of CFGPattern.matching for role r bound to node n, against
\* the live graph.
DegreesOk(P, G, r, n) ==
    /\ (P.degrees[r][1] # -1 => P.degrees[r][1] = in_degree(G, n))
    /\ (P.degrees[r][2] # -1 => P.degrees[r][2] = out_degree(G, n))

\* The role -> node maps over per-role candidate sets (patterns have the
\* roles A; A, B; A, B, D; or A, B, C, D).
RoleMaps(roles, Cand(_)) ==
    CASE roles = {"A"} -> [A : Cand("A")]
      [] roles = {"A", "B"} -> [A : Cand("A"), B : Cand("B")]
      [] roles = {"A", "B", "D"} -> [A : Cand("A"), B : Cand("B"), D : Cand("D")]
      [] OTHER -> [A : Cand("A"), B : Cand("B"), C : Cand("C"), D : Cand("D")]

\* A matching by sub-graph monomorphisms: edges between the matched nodes that
\* the template does not have are allowed
matching_Monomorphic(P, G) ==
    LET Cand(r) == {n \in G.nodes : DegreesOk(P, G, r, n)}
    IN {m \in RoleMaps(P.roles, Cand) :
          /\ \A r, s \in P.roles : r # s => m[r] # m[s]
          /\ \A r, s \in P.roles :
                (<<r, s>> \in P.edges) => (<<m[r], m[s]>> \in G.edges)}

\* CFGPattern.matching: the maps m of
\* DiGraphMatcher(cfg, pattern).subgraph_isomorphisms_iter(), i.e. the
\* node-induced sub-graph isomorphisms (self-loops included), that pass the
\* degree test.  The code returns the first such map; which one is first
\* depends on the matcher's iteration order, so the candidates are a set.
matching(P, G) ==
    LET Cand(r) == {n \in G.nodes : DegreesOk(P, G, r, n)}
    IN {m \in RoleMaps(P.roles, Cand) :
          /\ \A r, s \in P.roles : r # s => m[r] # m[s]
          /\ \A r, s \in P.roles :
                (<<m[r], m[s]>> \in G.edges) <=> (<<r, s>> \in P.edges)}

(***************************************************************************)
(* The pattern rewrites: one iteration of the `while blocks:` loop          *)
(***************************************************************************)
\* A merge that puts B's statements in front of A's
SeqRewrite_BFirst(S, m) ==
    LET A == m["A"]
        B == m["B"]
        st == S.block_statements
        br == S.block_branchs
    IN [S EXCEPT
          !.block_statements = pop(put(st, A, st[B] \o st[A]), B),
          !.block_branchs = pop(put(br, A, br[B]), B),
          !.cfg = contracted_nodes(S.cfg, A, B)]

\* SeqPattern.building, loop body
SeqRewrite(S, m) ==
    LET A == m["A"]
        B == m["B"]
        st == S.block_statements
        br == S.block_branchs
    IN [S EXCEPT
          !.block_statements = pop(put(st, A, st[A] \o st[B]), B),
          !.block_branchs = pop(put(br, A, br[B]), B),
          !.cfg = contracted_nodes(S.cfg, A, B)]

\* An arm selection that ignores the order of A's branch targets
If1Arms_Unordered(S, m) ==
    <<S.block_statements[m["B"]], S.block_statements[m["C"]]>>

\* The arm selection of IfPattern1.building: <<if_block, else_block>>
If1Arms(S, m) ==
    LET br_tgts_A == S.block_branchs[m["A"]].branch_targets
        st == S.block_statements
    IN IF br_tgts_A[1] = m["B"]
       THEN <<st[m["B"]], st[m["C"]]>>
       ELSE <<st[m["C"]], st[m["B"]]>>

\* IfPattern1.building, loop body (B's and C's map entries are not popped)
If1Rewrite(S, m) ==
    LET A == m["A"]
        br_cond_A == S.block_branchs[A].branch_condition
        arms == If1Arms(S, m)
        if_statement == BranchingStatement(br_cond_A, arms[1], arms[2])
    IN [S EXCEPT
          !.block_statements = put(S.block_statements, A,
                                   Append(S.block_statements[A], if_statement)),
          !.block_branchs = put(S.block_branchs, A, BranchInfo(None, <<m["D"]>>)),
          !.cfg = contracted_nodes(contracted_nodes(S.cfg, A, m["B"]), A, m["C"])]

\* An arm selection that leaves both arms empty
If2Arms_Dropped(S, m) == <<<<>>, <<>>>>

\* The arm selection of IfPattern2.building
If2Arms(S, m) ==
    LET br_tgts_A == S.block_branchs[m["A"]].branch_targets
        st == S.block_statements
    IN IF br_tgts_A[1] = m["B"]
       THEN <<st[m["B"]], <<>>>>
       ELSE <<<<>>, st[m["B"]]>>

\* IfPattern2.building, loop body
If2Rewrite(S, m) ==
    LET A == m["A"]
        br_cond_A == S.block_branchs[A].branch_condition
        arms == If2Arms(S, m)
        if_statement == BranchingStatement(br_cond_A, arms[1], arms[2])
    IN [S EXCEPT
          !.block_statements = put(S.block_statements, A,
                                   Append(S.block_statements[A], if_statement)),
          !.block_branchs = put(S.block_branchs, A, BranchInfo(None, <<m["D"]>>)),
          !.cfg = contracted_nodes(S.cfg, A, m["B"])]

\* A condition choice that never negates
WhileCondition_Plain(br_info_A, body) ==
    IF br_info_A.branch_targets[1] = body
    THEN <<br_info_A.branch_condition, br_info_A.branch_targets[2]>>
    ELSE <<br_info_A.branch_condition, br_info_A.branch_targets[1]>>

\* Condition and exit target of a while rewrite whose back-edge enters `body`:
\* <<while_condition, out_bt_tgt>>
WhileCondition(br_info_A, body) ==
    IF br_info_A.branch_targets[1] = body
    THEN <<br_info_A.branch_condition, br_info_A.branch_targets[2]>>
    ELSE <<UnaryNot(br_info_A.branch_condition), br_info_A.branch_targets[1]>>

\* A rewrite whose loop body puts A's statements in front of B's
While1Rewrite_AFirst(S, m) ==
    LET A == m["A"]
        B == m["B"]
        co == WhileCondition(S.block_branchs[A], B)
        while_body == S.block_statements[A] \o S.block_statements[B]
        while_statement == WhileLoop(co[1], while_body)
    IN [S EXCEPT
          !.block_statements = pop(put(S.block_statements, A,
                                       Append(S.block_statements[A], while_statement)), B),
          !.block_branchs = pop(put(S.block_branchs, A, BranchInfo(None, <<co[2]>>)), B),
          !.cfg = remove_node(remove_edge(S.cfg, A, B), B)]

\* WhilePattern1.building, loop body
While1Rewrite(S, m) ==
    LET A == m["A"]
        B == m["B"]
        co == WhileCondition(S.block_branchs[A], B)
        while_body == S.block_statements[B] \o S.block_statements[A]
        while_statement == WhileLoop(co[1], while_body)
    IN [S EXCEPT
          !.block_statements = pop(put(S.block_statements, A,
                                       Append(S.block_statements[A], while_statement)), B),
          !.block_branchs = pop(put(S.block_branchs, A, BranchInfo(None, <<co[2]>>)), B),
          !.cfg = remove_node(remove_edge(S.cfg, A, B), B)]

\* WhilePattern2.building, loop body
While2Rewrite_KeepEdge(S, m) ==
    LET A == m["A"]
        co == WhileCondition(S.block_branchs[A], A)
        while_statement == WhileLoop(co[1], S.block_statements[A])
    IN [S EXCEPT
          !.block_statements = put(S.block_statements, A,
                                   Append(S.block_statements[A], while_statement)),
          !.block_branchs = put(S.block_branchs, A, BranchInfo(None, <<co[2]>>))]

While2Rewrite(S, m) ==
    LET A == m["A"]
        co == WhileCondition(S.block_branchs[A], A)
        while_body == S.block_statements[A]
        while_statement == WhileLoop(co[1], while_body)
    IN [S EXCEPT
          !.block_statements = put(S.block_statements, A,
                                   Append(S.block_statements[A], while_statement)),
          !.block_branchs = put(S.block_branchs, A, BranchInfo(None, <<co[2]>>)),
          !.cfg = remove_edge(S.cfg, A, A)]

(***************************************************************************)
(* SymbolTable.__init__ and the profile registration                       *)
(***************************************************************************)
EmptyMap == [x \in {} |-> 0]

\* SymbolTable.__init__
SymbolTable0 ==
    [structs |-> <<>>,
     structs_num |-> EmptyMap,
     structs_tmp_num |-> EmptyMap,
     classical_tmp |-> <<>>,
     classical_tmp_num |-> EmptyMap,
     io_variables |-> [input |-> <<>>, output |-> <<>>],
     variables |-> EmptyMap,
     instructions |-> <<>>,
     functions |-> EmptyMap,
     block_statements |-> EmptyMap,
     block_branchs |-> EmptyMap,
     cfg |-> DiGraph({}, {}),
     tmp_block_num |-> 0]

(***************************************************************************)
(* The input of the CFG specifications: the entry function's blocks, each  *)
(* given by what build_block records for it.  Block 1 is the entry block   *)
(* and, as LLVM requires, has no predecessor.                              *)
(***************************************************************************)
Targets(n) == 2..n

\* branch_targets of a ret / an unconditional br, and of a conditional br
PlainTargets(n) == {<<>>} \cup {<<t>> : t \in Targets(n)}

CondTargets(n) == {q \in Targets(n) \X Targets(n) : q[1] # q[2]}

\* The blocks a branch map reaches from block b, through at most k branches
RECURSIVE Reach(_, _, _)
Reach(br, S, k) ==
    IF k = 0 THEN S
    ELSE Reach(br, S \cup UNION {{br[b].branch_targets[i] :
                                    i \in DOMAIN br[b].branch_targets} : b \in S}, k - 1)

\* The blocks of a module of n blocks whose conditional blocks are C
ModuleOf(n, C, ct, pt) ==
    [b \in 1..n |-> IF b \in C THEN BranchInfo(CondOf(b), ct[b])
                               ELSE BranchInfo(None, pt[b])]

(***************************************************************************)
(* QASM3Builder.build_main / build_control and Exporter.dump               *)
(***************************************************************************)
NBlocks == Cardinality(DOMAIN module)

\* The graph build_control builds from block_branchs
BuildCfg(br) ==
    DiGraph((DOMAIN br)
              \cup UNION {{br[b].branch_targets[i] : i \in DOMAIN br[b].branch_targets} :
                            b \in DOMAIN br},
            UNION {{<<b, br[b].branch_targets[i]>> : i \in DOMAIN br[b].branch_targets} :
                     b \in DOMAIN br})

InitBuild ==
    /\ \E n \in 1..NumBlocks :
         \E C \in {X \in SUBSET (1..n) : Cardinality(X) <= MaxCond} :
           \E ct \in [C -> CondTargets(n)] :
             \E pt \in [(1..n) \ C -> PlainTargets(n)] :
               /\ module = ModuleOf(n, C, ct, pt)
               /\ Reach(module, {1}, n) = 1..n
    /\ symbols = SymbolTable0
    /\ entry_block = 0
    /\ pc = "build_main"
    /\ is_updated = FALSE
    /\ rewrites = 0
    /\ last = <<>>
    /\ stream = <<>>
    /\ allocs = <<>>
    /\ locals = <<>>

\* build_main: entry_block = first block; build_block for every block
LowerBlocks ==
    /\ pc = "build_main"
    /\ entry_block' = 1
    /\ symbols' = [symbols EXCEPT
                     !.block_statements = [b \in DOMAIN module |-> BlockStatements0(b)],
                     !.block_branchs = module]
    /\ pc' = "build_control"
    /\ UNCHANGED <<locals, allocs, is_updated, rewrites, module, last, stream>>

\* build_control: the CFG from the collected branch information
BuildCFG ==
    /\ pc = "build_control"
    /\ symbols' = [symbols EXCEPT !.cfg = BuildCfg(symbols.block_branchs)]
    /\ pc' = "seq"
    /\ is_updated' = FALSE
    /\ UNCHANGED <<locals, allocs, entry_block, rewrites, module, last, stream>>

\* one rewrite of SeqPattern().building inside build_control
SeqStep ==
    /\ pc = "seq"
    /\ \E m \in matching(SeqPattern, symbols.cfg) : symbols' = SeqRewrite(symbols, m)
    /\ is_updated' = TRUE
    /\ rewrites' = rewrites + 1
    /\ UNCHANGED <<locals, allocs, entry_block, pc, module, last, stream>>

\* A loop that ends as soon as a Sequence pass makes no rewrite
SeqReturn_Exit ==
    /\ pc = "seq"
    /\ matching(SeqPattern, symbols.cfg) = {}
    /\ pc' = IF is_updated THEN "seq" ELSE "assert"
    /\ is_updated' = FALSE
    /\ UNCHANGED <<locals, allocs, symbols, entry_block, rewrites, module, last, stream>>

\* SeqPattern().building returns; `is_updated or IfPattern1()...` short-circuits
SeqReturn ==
    /\ pc = "seq"
    /\ matching(SeqPattern, symbols.cfg) = {}
    /\ pc' = IF is_updated THEN "seq" ELSE "if1"
    /\ is_updated' = FALSE
    /\ UNCHANGED <<locals, allocs, symbols, entry_block, rewrites, module, last, stream>>

\* one rewrite of IfPattern1().building inside build_control
If1Step ==
    /\ pc = "if1"
    /\ \E m \in matching(IfPattern1, symbols.cfg) : symbols' = If1Rewrite(symbols, m)
    /\ is_updated' = TRUE
    /\ rewrites' = rewrites + 1
    /\ UNCHANGED <<locals, allocs, entry_block, pc, module, last, stream>>

\* IfPattern1().building returns; the while loop of build_control tests is_updated
If1Return ==
    /\ pc = "if1"
    /\ matching(IfPattern1, symbols.cfg) = {}
    /\ pc' = IF is_updated THEN "seq" ELSE "assert"
    /\ is_updated' = FALSE
    /\ UNCHANGED <<locals, allocs, symbols, entry_block, rewrites, module, last, stream>>

\* A build_main that returns the entry block's statements without the assertion
BuildMainReturn_Unchecked ==
    /\ pc = "assert"
    /\ last' = symbols.block_statements[entry_block]
    /\ pc' = "returned"
    /\ UNCHANGED <<locals, allocs, symbols, entry_block, is_updated, rewrites, module, stream>>

\* build_main: assert cfg.number_of_nodes() == 1; return block_statements[entry_block]
BuildMainReturn ==
    /\ pc = "assert"
    /\ IF Cardinality(symbols.cfg.nodes) = 1
       THEN /\ last' = symbols.block_statements[entry_block]
            /\ pc' = "returned"
       ELSE /\ last' = last
            /\ pc' = "AssertionError"
    /\ UNCHANGED <<locals, allocs, symbols, entry_block, is_updated, rewrites, module, stream>>

\* Exporter.dump: printer.visit(Program(version="3.0", statements))
Dump ==
    /\ pc = "returned"
    /\ stream' = <<"OPENQASM 3.0">> \o last
    /\ pc' = "done"
    /\ UNCHANGED <<locals, allocs, symbols, entry_block, is_updated, rewrites, module, last>>

NextBuild ==
    \/ LowerBlocks
    \/ BuildCFG
    \/ SeqStep
    \/ SeqReturn
    \/ If1Step
    \/ If1Return
    \/ BuildMainReturn
    \/ Dump

SpecBuild == InitBuild /\ [][NextBuild]_vars

\* The translation is a sequential program: it takes its next step
SpecBuildFair == SpecBuild /\ WF_vars(NextBuild)

(***************************************************************************)
(* Block isolation (control_flow.py)                                       *)
(***************************************************************************)
\* SymbolTable.new_tmp_block_name: a name that is no block of the module and
\* was not handed out before.
new_tmp_block_name(S) == NumBlocks + S.tmp_block_num + 1

\* An isolation that leaves A's branch targets as they were
isolate_incoming_edge_KeepTargets(S, blockA, blockB) ==
    LET blockB_copy == new_tmp_block_name(S)
        st1 == put(S.block_statements, blockB_copy, S.block_statements[blockB])
        br2 == put(S.block_branchs, blockB_copy, S.block_branchs[blockB])
        g1 == add_edge(remove_edge(S.cfg, blockA, blockB), blockA, blockB_copy)
        g2 == DiGraph(g1.nodes,
                      g1.edges \cup {<<blockB_copy, u>> : u \in successors(g1, blockB)})
    IN [S EXCEPT
          !.tmp_block_num = S.tmp_block_num + 1,
          !.block_statements = st1,
          !.block_branchs = br2,
          !.cfg = g2]

\* isolate_incoming_edge((blockA, blockB), symbols)
isolate_incoming_edge(S, blockA, blockB) ==
    LET blockB_copy == new_tmp_block_name(S)
        br_info_A == S.block_branchs[blockA]
        br_tgts_A_new == [i \in DOMAIN br_info_A.branch_targets |->
                             IF br_info_A.branch_targets[i] = blockB
                             THEN blockB_copy ELSE br_info_A.branch_targets[i]]
        br1 == put(S.block_branchs, blockA,
                   BranchInfo(br_info_A.branch_condition, br_tgts_A_new))
        st1 == put(S.block_statements, blockB_copy, S.block_statements[blockB])
        br2 == put(br1, blockB_copy, br1[blockB])
        g1 == add_edge(remove_edge(S.cfg, blockA, blockB), blockA, blockB_copy)
        g2 == DiGraph(g1.nodes,
                      g1.edges \cup {<<blockB_copy, u>> : u \in successors(g1, blockB)})
    IN [S EXCEPT
          !.tmp_block_num = S.tmp_block_num + 1,
          !.block_statements = st1,
          !.block_branchs = br2,
          !.cfg = g2]

\* chains[u] of find_if_pattern / find_while_pattern: the path from u through
\* out-degree-1 blocks to the first block whose out-degree is not 1; <<>> stands
\* for None (the backward search never reaches u: u runs into a cycle of
\* out-degree-1 blocks).
RECURSIVE chains(_, _, _)
chains(G, u, k) ==
    IF out_degree(G, u) # 1 THEN <<u>>
    ELSE IF k = 0 THEN <<>>
    ELSE LET rest == chains(G, CHOOSE v \in successors(G, u) : TRUE, k - 1)
         IN IF rest = <<>> THEN <<>> ELSE <<u>> \o rest

Chain(G, u) == chains(G, u, Cardinality(G.nodes))

InSeq(x, sq) == \E i \in DOMAIN sq : sq[i] = x

\* find_while_pattern: the (block, path) pairs the scan of the out-degree-2
\* blocks can return; the scan order of the set deg2_G and of the successors
\* decides which one is returned first.
find_while_pattern(G) ==
    {<<block, SubSeq(Chain(G, succ), 1, Len(Chain(G, succ)) - 1)>> :
        <<block, succ>> \in {e \in G.edges :
              /\ out_degree(G, e[1]) = 2
              /\ InSeq(e[1], Chain(G, e[2]))}}

\* The scan reads `block in chains[succ]` with chains[succ] = None: TypeError
find_while_TypeError(G) ==
    \E e \in G.edges : out_degree(G, e[1]) = 2 /\ Chain(G, e[2]) = <<>>

\* The loop of isolate_while_pattern (and of isolate_if_pattern, per path) over
\* the edges zip([block] + path[:-1], path), from the i-th edge on
RECURSIVE isolate_path(_, _, _, _)
isolate_path(S, block, path, i) ==
    IF i > Len(path) THEN S
    ELSE LET u == IF i = 1 THEN block ELSE path[i - 1]
             v == path[i]
         IN isolate_path(IF in_degree(S.cfg, v) > 1
                         THEN isolate_incoming_edge(S, u, v) ELSE S,
                         block, path, i + 1)

(***************************************************************************)
(* Reference semantics: the executions of a CFG whose blocks hold           *)
(* statements, conditionals and loops.  An execution is the sequence of     *)
(* the statements run and of the condition values read; <<b, i, 0>> is      *)
(* statement i of block b, <<b, 0, v>> is reading value v (1 true, 0 false) *)
(* of the condition tested by block b.                                      *)
(***************************************************************************)
\* the identifier a condition expression tests, and its truth under value v
CondVar(e) == e[Len(e)]

CondTrue(e, v) == (v = 1) <=> ((Len(e) - 1) % 2 = 0)

RECURSIVE ExecList(_, _, _), ExecStmt(_, _), ExecWhile(_, _)
\* the complete executions of at most L events of stmts[i..]
ExecList(stmts, i, L) ==
    IF i > Len(stmts) THEN {<<>>}
    ELSE UNION {{p \o q : q \in ExecList(stmts, i + 1, L - Len(p))} :
                  p \in ExecStmt(stmts[i], L)}

ExecStmt(s, L) ==
    IF L = 0 THEN {}
    ELSE CASE s.kind = "stmt" -> {<<s.label \o <<0>>>>}
           [] s.kind = "if" ->
                UNION {{<<<<CondVar(s.cond), 0, v>>>> \o q :
                          q \in ExecList(IF CondTrue(s.cond, v) THEN s.block
                                         ELSE s.else_block, 1, L - 1)} : v \in {0, 1}}
           [] OTHER -> ExecWhile(s, L)

ExecWhile(s, L) ==
    IF L = 0 THEN {}
    ELSE UNION {IF CondTrue(s.cond, v)
                THEN UNION {{<<<<CondVar(s.cond), 0, v>>>> \o p \o q :
                               q \in ExecWhile(s, L - 1 - Len(p))} :
                              p \in ExecList(s.block, 1, L - 1)}
                ELSE {<<<<CondVar(s.cond), 0, v>>>>} : v \in {0, 1}}

\* the complete executions of at most L events from block b, entering at most h
\* blocks in a row without an event: a longer row re-enters a block in the same
\* state, and never completes
RECURSIVE Run(_, _, _, _, _)
Run(st, br, b, L, h) ==
    IF h = 0 THEN {}
    ELSE UNION {{p \o q : q \in
                   LET tg == br[b].branch_targets
                       c == br[b].branch_condition
                       R == L - Len(p)
                       n == Cardinality(DOMAIN br)
                   IN CASE Len(tg) = 0 -> {<<>>}
                        [] Len(tg) = 1 ->
                             Run(st, br, tg[1], R, IF p = <<>> THEN h - 1 ELSE n)
                        [] OTHER ->
                             IF R = 0 THEN {}
                             ELSE UNION {{<<<<CondVar(c), 0, v>>>> \o r :
                                            r \in Run(st, br,
                                                      IF CondTrue(c, v) THEN tg[1] ELSE tg[2],
                                                      R - 1, n)} : v \in {0, 1}}}
                : p \in ExecList(st[b], 1, L)}

MaxTrace == 10

\* The executions of the working CFG and of the input CFG, from block b
Executions(S, b) ==
    Run(S.block_statements, S.block_branchs, b, MaxTrace,
        Cardinality(DOMAIN S.block_branchs))

Executions0(b) ==
    Run([x \in DOMAIN module |-> BlockStatements0(x)], module, b, MaxTrace, NBlocks)

(***************************************************************************)
(* Loop structuring: isolate_while_pattern until it reports no update,     *)
(* then WhilePattern().building, then SeqPattern().building, on the blocks *)
(* build_main and build_control collect for a module with a two-block loop *)
(* whose test block has a further predecessor, or for a module without a   *)
(* conditional branch.  The blocks are listed in the order a breadth-first *)
(* walk from the entry block discovers them.                               *)
(***************************************************************************)
\* A tests and branches to B and to an exit, B branches back to A
IsTestLoop(br, A, B) ==
    /\ A # B
    /\ Len(br[A].branch_targets) = 2
    /\ InSeq(B, br[A].branch_targets)
    /\ br[B].branch_targets = <<A>>

HasSharedTestLoop(br) ==
    \E A, B, P \in DOMAIN br :
        /\ IsTestLoop(br, A, B)
        /\ P # B
        /\ InSeq(A, br[P].branch_targets)

MaxLoopCond == 2

\* The blocks a branch map reaches from its first block, in breadth-first
\* order of discovery (targets in branch order)
RECURSIVE Discovery(_, _, _)
Discovery(br, order, i) ==
    IF i > Len(order) THEN order
    ELSE LET tg == br[order[i]].branch_targets
             new == SelectSeq(tg, LAMBDA t : ~InSeq(t, order))
             fresh == IF Len(new) = 2 /\ new[1] = new[2] THEN <<new[1]>> ELSE new
         IN Discovery(br, order \o fresh, i + 1)

InitWhile ==
    /\ \E n \in 1..NumBlocks :
         \E C \in {X \in SUBSET (1..n) : Cardinality(X) <= MaxLoopCond} :
           \E ct \in [C -> CondTargets(n)] :
             \E pt \in [(1..n) \ C -> PlainTargets(n)] :
               /\ module = ModuleOf(n, C, ct, pt)
               /\ Discovery(module, <<1>>, 1) = [i \in 1..n |-> i]
               /\ HasSharedTestLoop(module) \/ C = {}
    /\ symbols = [SymbolTable0 EXCEPT
                    !.block_statements = [b \in DOMAIN module |-> BlockStatements0(b)],
                    !.block_branchs = module,
                    !.cfg = BuildCfg(module)]
    /\ entry_block = 1
    /\ pc = "isolate_while"
    /\ is_updated = FALSE
    /\ rewrites = 0
    /\ last = <<>>
    /\ stream = <<>>
    /\ allocs = <<>>
    /\ locals = <<>>

\* isolate_while_pattern finds a candidate and walks its path
IsolateWhile ==
    /\ pc = "isolate_while"
    /\ \E r \in find_while_pattern(symbols.cfg) :
          /\ symbols' = isolate_path(symbols, r[1], r[2], 1)
          /\ pc' = IF symbols' # symbols THEN "isolate_while" ELSE "while1"
    /\ is_updated' = FALSE
    /\ UNCHANGED <<locals, allocs, entry_block, rewrites, module, last, stream>>

\* isolate_while_pattern: find_while_pattern returns None
IsolateWhileNone ==
    /\ pc = "isolate_while"
    /\ find_while_pattern(symbols.cfg) = {}
    /\ ~find_while_TypeError(symbols.cfg)
    /\ pc' = "while1"
    /\ is_updated' = FALSE
    /\ UNCHANGED <<locals, allocs, symbols, entry_block, rewrites, module, last, stream>>

\* isolate_while_pattern: find_while_pattern raises
IsolateWhileRaise ==
    /\ pc = "isolate_while"
    /\ find_while_TypeError(symbols.cfg)
    /\ pc' = "TypeError"
    /\ UNCHANGED <<locals, allocs, symbols, entry_block, is_updated, rewrites, module, last, stream>>

\* one rewrite of WhilePattern1().building
While1Step ==
    /\ pc = "while1"
    /\ \E m \in matching(WhilePattern1, symbols.cfg) : symbols' = While1Rewrite(symbols, m)
    /\ is_updated' = TRUE
    /\ rewrites' = rewrites + 1
    /\ UNCHANGED <<locals, allocs, entry_block, pc, module, last, stream>>

\* WhilePattern1().building returns inside WhilePattern.building
While1Return ==
    /\ pc = "while1"
    /\ matching(WhilePattern1, symbols.cfg) = {}
    /\ pc' = IF is_updated THEN "while1" ELSE "while2"
    /\ is_updated' = FALSE
    /\ UNCHANGED <<locals, allocs, symbols, entry_block, rewrites, module, last, stream>>

\* one rewrite of WhilePattern2().building
While2Step ==
    /\ pc = "while2"
    /\ \E m \in matching(WhilePattern2, symbols.cfg) : symbols' = While2Rewrite(symbols, m)
    /\ is_updated' = TRUE
    /\ rewrites' = rewrites + 1
    /\ UNCHANGED <<locals, allocs, entry_block, pc, module, last, stream>>

\* WhilePattern2().building returns; WhilePattern.building loops while either updated
While2Return ==
    /\ pc = "while2"
    /\ matching(WhilePattern2, symbols.cfg) = {}
    /\ pc' = IF is_updated THEN "while1" ELSE "while_seq"
    /\ is_updated' = FALSE
    /\ UNCHANGED <<locals, allocs, symbols, entry_block, rewrites, module, last, stream>>

\* one rewrite of SeqPattern().building after the loops are structured
WhileSeqStep ==
    /\ pc = "while_seq"
    /\ \E m \in matching(SeqPattern, symbols.cfg) : symbols' = SeqRewrite(symbols, m)
    /\ is_updated' = TRUE
    /\ rewrites' = rewrites + 1
    /\ UNCHANGED <<locals, allocs, entry_block, pc, module, last, stream>>

\* SeqPattern().building returns
WhileSeqReturn ==
    /\ pc = "while_seq"
    /\ matching(SeqPattern, symbols.cfg) = {}
    /\ pc' = "while_done"
    /\ UNCHANGED <<locals, allocs, symbols, entry_block, is_updated, rewrites, module, last, stream>>

NextWhile ==
    \/ IsolateWhile
    \/ IsolateWhileNone
    \/ IsolateWhileRaise
    \/ While1Step
    \/ While1Return
    \/ While2Step
    \/ While2Return
    \/ WhileSeqStep
    \/ WhileSeqReturn

SpecWhile == InitWhile /\ [][NextWhile]_vars

(***************************************************************************)
(* The structuring operations called in any order on the CFG of a module:  *)
(* the building method of each pattern, which rewrites until its pattern   *)
(* has no match, and isolate_incoming_edge on an edge into a block of      *)
(* in-degree > 1, on modules with up to MaxStructCond conditional          *)
(* branches.  locals is the widest class of operation called so far:       *)
(* 0 for SeqPattern and IfPattern1, the patterns build_control runs, 1 for *)
(* IfPattern2, 2 for the while patterns and isolate_incoming_edge.         *)
(***************************************************************************)
MaxTmpBlocks == 1
MaxStructCond == 2

OperationClass(p) ==
    CASE p \in {"seq", "if1"} -> 0
      [] p = "if2" -> 1
      [] OTHER -> 2

Widest(a, b) == IF a >= b THEN a ELSE b

Patterns == [seq |-> SeqPattern, if1 |-> IfPattern1, if2 |-> IfPattern2,
             while1 |-> WhilePattern1, while2 |-> WhilePattern2]

InitStructure ==
    /\ \E n \in 1..NumBlocks :
         \E C \in {X \in SUBSET (1..n) : Cardinality(X) <= MaxStructCond} :
           \E ct \in [C -> CondTargets(n)] :
             \E pt \in [(1..n) \ C -> PlainTargets(n)] :
               /\ module = ModuleOf(n, C, ct, pt)
               /\ Reach(module, {1}, n) = 1..n
    /\ symbols = [SymbolTable0 EXCEPT
                    !.block_statements = [b \in DOMAIN module |-> BlockStatements0(b)],
                    !.block_branchs = module,
                    !.cfg = BuildCfg(module)]
    /\ entry_block = 1
    /\ pc = "idle"
    /\ is_updated = FALSE
    /\ rewrites = 0
    /\ last = <<>>
    /\ stream = <<>>
    /\ allocs = <<>>
    /\ locals = 0

\* A call of <pattern>().building(symbols)
CallBuilding ==
    /\ pc = "idle"
    /\ \E p \in DOMAIN Patterns :
          /\ pc' = p
          /\ locals' = Widest(locals, OperationClass(p))
    /\ is_updated' = FALSE
    /\ UNCHANGED <<allocs, symbols, entry_block, rewrites, module, last, stream>>

\* one rewrite of IfPattern2().building
If2Step ==
    /\ pc = "if2"
    /\ \E m \in matching(IfPattern2, symbols.cfg) : symbols' = If2Rewrite(symbols, m)
    /\ is_updated' = TRUE
    /\ rewrites' = rewrites + 1
    /\ UNCHANGED <<locals, allocs, entry_block, pc, module, last, stream>>

\* building returns: `while blocks:` ends when matching returns None
BuildingReturn ==
    /\ pc \in DOMAIN Patterns
    /\ matching(Patterns[pc], symbols.cfg) = {}
    /\ pc' = "idle"
    /\ UNCHANGED <<locals, allocs, symbols, entry_block, is_updated, rewrites, module, last,
                   stream>>

\* A call of isolate_incoming_edge, on the condition its callers test
IsolateIncomingEdge ==
    /\ pc = "idle"
    /\ symbols.tmp_block_num < MaxTmpBlocks
    /\ \E e \in symbols.cfg.edges :
          /\ in_degree(symbols.cfg, e[2]) > 1
          /\ symbols' = isolate_incoming_edge(symbols, e[1], e[2])
    /\ locals' = Widest(locals, OperationClass("isolate"))
    /\ UNCHANGED <<allocs, entry_block, pc, is_updated, rewrites, module, last, stream>>

NextStructure ==
    \/ CallBuilding
    \/ SeqStep
    \/ If1Step
    \/ If2Step
    \/ While1Step
    \/ While2Step
    \/ BuildingReturn
    \/ IsolateIncomingEdge

SpecStructure == InitStructure /\ [][NextStructure]_vars

(***************************************************************************)
(* The building passes, called in any order, on modules of up to           *)
(* MaxPassBlocks blocks numbered in their order of discovery               *)
(***************************************************************************)
MaxPassBlocks == 5

InitPasses ==
    /\ \E n \in 1..MaxPassBlocks :
         \E C \in {X \in SUBSET (1..n) : Cardinality(X) <= MaxStructCond} :
           \E ct \in [C -> CondTargets(n)] :
             \E pt \in [(1..n) \ C -> PlainTargets(n)] :
               /\ module = ModuleOf(n, C, ct, pt)
               /\ Discovery(module, <<1>>, 1) = [i \in 1..n |-> i]
    /\ symbols = [SymbolTable0 EXCEPT
                    !.block_statements = [b \in DOMAIN module |-> BlockStatements0(b)],
                    !.block_branchs = module,
                    !.cfg = BuildCfg(module)]
    /\ entry_block = 1
    /\ pc = "idle"
    /\ is_updated = FALSE
    /\ rewrites = 0
    /\ last = <<>>
    /\ stream = <<>>
    /\ allocs = <<>>
    /\ locals = 0

NextPasses ==
    \/ CallBuilding
    \/ SeqStep
    \/ If1Step
    \/ If2Step
    \/ While1Step
    \/ While2Step
    \/ BuildingReturn

SpecPasses == InitPasses /\ [][NextPasses]_vars

(***************************************************************************)
(* OpenQASM AST values used by the symbol table and the builders           *)
(***************************************************************************)
\* A type_ast: a classical type (its class, its size literal, for an array
\* its base type as <<class, size>>), or the name of a struct (a Python str).
TypeAst(cls, size, name, base) == [cls |-> cls, size |-> size, name |-> name, base |-> base]

IntType(w) == TypeAst("IntType", w, "", <<>>)

FloatType(w) == TypeAst("FloatType", w, "", <<>>)

BoolType == TypeAst("BoolType", 0, "", <<>>)

BitType(size) == TypeAst("BitType", size, "", <<>>)

ArrayType(base_type, size) == TypeAst("ArrayType", size, "", <<base_type.cls, base_type.size>>)

StructName(name) == TypeAst("str", 0, name, <<>>)

NoType == TypeAst("None", 0, "", <<>>)

\* type_ast.__class__.__name__
ClassName(type_ast) == type_ast.cls

\* ast.Identifier, ast.IndexedIdentifier (one integer index), ast.IndexExpression,
\* ast.IntegerLiteral, and None
Identifier(name) == [cls |-> "Identifier", name |-> name, index |-> -1]

IndexedIdentifier(name, idx) == [cls |-> "IndexedIdentifier", name |-> name, index |-> idx]

IndexExpression(name, idx) == [cls |-> "IndexExpression", name |-> name, index |-> idx]

IntegerLiteral(v) == [cls |-> "IntegerLiteral", name |-> "", index |-> v]

NoIdent == [cls |-> "None", name |-> "", index |-> -1]

\* identifier2expression
identifier2expression(ident) ==
    IF ident.cls = "IndexedIdentifier"
    THEN IndexExpression(ident.name, ident.index)
    ELSE ident

\* The declaration statements
QubitDeclaration(name, size) ==
    [cls |-> "QubitDeclaration", identifier |-> Identifier(name), type |-> NoType,
     size |-> size, io |-> ""]

ClassicalDeclaration(type_ast, name) ==
    [cls |-> "ClassicalDeclaration", identifier |-> Identifier(name), type |-> type_ast,
     size |-> -1, io |-> ""]

IODeclaration(io_key, type_ast, ident) ==
    [cls |-> "IODeclaration", identifier |-> ident, type |-> type_ast,
     size |-> -1, io |-> io_key]

Include(filename) ==
    [cls |-> "Include", identifier |-> Identifier(filename), type |-> NoType,
     size |-> -1, io |-> ""]

\* DeclBuilder.building of the three declaration builders
DeclBuilding(builder, base_type, name, size) ==
    CASE builder = "QubitDeclarationBuilder" -> QubitDeclaration(name, size)
      [] builder = "ResultDeclarationBuilder" -> ClassicalDeclaration(BitType(size), name)
      [] OTHER -> ClassicalDeclaration(ArrayType(base_type, size), name)

(***************************************************************************)
(* SymbolTable: struct registration and the allocators                     *)
(***************************************************************************)
StructInfo(name, type_ast, decl_builder) ==
    [name |-> name, type_ast |-> type_ast, decl_builder |-> decl_builder,
     static_name |-> name \o "s"]

\* BaseProfile._define_structs: Qubit, then Result
BaseProfileStructs ==
    <<StructInfo("Qubit", StructName("Qubit"), "QubitDeclarationBuilder"),
      StructInfo("Result", BitType(0), "ResultDeclarationBuilder")>>

\* symbols.structs[name]
StructOf(S, name) ==
    S.structs[CHOOSE i \in DOMAIN S.structs : S.structs[i].name = name]

\* SymbolTable.register_struct
register_struct(S, info) ==
    [S EXCEPT
       !.structs = Append(S.structs, info),
       !.structs_num = put(S.structs_num, info.name, 0),
       !.structs_tmp_num = put(S.structs_tmp_num, info.name, 0)]

\* build_func_declarations: `for name, struct_info in self.profile.structs.items()`
RECURSIVE RegisterStructs(_, _, _)
RegisterStructs(S, infos, i) ==
    IF i > Len(infos) THEN S
    ELSE RegisterStructs(register_struct(S, infos[i]), infos, i + 1)

tmp_naming(sname) == sname \o "_tmp"

io_naming(sname, io_key, idx) ==
    sname \o "_" \o (IF io_key = "input" THEN "i" ELSE "o") \o ToString(idx)

\* SymbolTable.alloc_tmp_var: the updated table and the identifier returned
alloc_tmp_var(S, type_ast) ==
    IF type_ast.cls = "str"
    THEN LET name == type_ast.name
             idx == S.structs_tmp_num[name]
         IN [symbols |-> [S EXCEPT !.structs_tmp_num[name] = idx + 1],
             var_ast |-> IndexedIdentifier(tmp_naming(StructOf(S, name).static_name), idx)]
    ELSE LET name == ClassName(type_ast)
             seen == name \in DOMAIN S.classical_tmp_num
             idx == IF seen THEN S.classical_tmp_num[name] ELSE 0
         IN [symbols |-> [S EXCEPT
                            !.classical_tmp_num = put(S.classical_tmp_num, name, idx + 1),
                            !.classical_tmp =
                                IF seen THEN S.classical_tmp
                                ELSE Append(S.classical_tmp,
                                            [name |-> name, type_ast |-> type_ast])],
             var_ast |-> IndexedIdentifier(tmp_naming(name), idx)]

\* An I/O allocator that numbers the identifiers of a role per type
alloc_io_var_PerType(S, type_ast, io_key) ==
    LET name == ClassName(type_ast)
        same == SelectSeq(S.io_variables[io_key], LAMBDA e : e[1] = type_ast)
        var_ast == Identifier(io_naming(name, io_key, Len(same)))
    IN [symbols |-> [S EXCEPT !.io_variables[io_key] =
                                  Append(S.io_variables[io_key], <<type_ast, var_ast>>)],
        var_ast |-> var_ast]

\* SymbolTable.alloc_io_var
alloc_io_var(S, type_ast, io_key) ==
    LET name == ClassName(type_ast)
        idx == Len(S.io_variables[io_key])
        var_ast == Identifier(io_naming(name, io_key, idx))
    IN [symbols |-> [S EXCEPT !.io_variables[io_key] =
                                  Append(S.io_variables[io_key], <<type_ast, var_ast>>)],
        var_ast |-> var_ast]

\* build_var_declarations with the value arrays of all structs ahead of the
\* temporary arrays of all structs
StructTasks_Grouped(S) ==
    [k \in 1..(2 * Len(S.structs)) |->
        LET n == Len(S.structs)
            info == S.structs[IF k <= n THEN k ELSE k - n]
        IN IF k <= n
           THEN [builder |-> info.decl_builder, base |-> NoType,
                 name |-> info.name \o "s", size |-> S.structs_num[info.name]]
           ELSE [builder |-> info.decl_builder, base |-> NoType,
                 name |-> info.name \o "s_tmp", size |-> S.structs_tmp_num[info.name]]]

\* build_var_declarations, the building tasks of the structs: for each struct
\* in registration order its value array, then its temporary array
StructTasks(S) ==
    [k \in 1..(2 * Len(S.structs)) |->
        LET info == S.structs[(k + 1) \div 2]
        IN IF k % 2 = 1
           THEN [builder |-> info.decl_builder, base |-> NoType,
                 name |-> info.name \o "s", size |-> S.structs_num[info.name]]
           ELSE [builder |-> info.decl_builder, base |-> NoType,
                 name |-> info.name \o "s_tmp", size |-> S.structs_tmp_num[info.name]]]

\* build_var_declarations, the building tasks of the classical temporaries
ClassicalTasks(S) ==
    [k \in 1..Len(S.classical_tmp) |->
        [builder |-> "ClassicalDeclarationBuilder",
         base |-> S.classical_tmp[k].type_ast,
         name |-> S.classical_tmp[k].name \o "_tmp",
         size |-> S.classical_tmp_num[S.classical_tmp[k].name]]]

\* build_var_declarations, the I/O declarations of one role
IODeclarations(S, io_key) ==
    [k \in 1..Len(S.io_variables[io_key]) |->
        IODeclaration(io_key, S.io_variables[io_key][k][1], S.io_variables[io_key][k][2])]

\* QASM3Builder.build_var_declarations
build_var_declarations(S) ==
    LET building_tasks == SelectSeq(StructTasks(S) \o ClassicalTasks(S),
                                    LAMBDA t : t.size > 0)
    IN [k \in 1..Len(building_tasks) |->
           DeclBuilding(building_tasks[k].builder, building_tasks[k].base,
                        building_tasks[k].name, building_tasks[k].size)]
       \o IODeclarations(S, "input") \o IODeclarations(S, "output")

(***************************************************************************)
(* The allocators under arbitrary call sequences: after the profile's      *)
(* structs are registered, alloc_tmp_var and alloc_io_var are called in    *)
(* any order with any of the types below, then the variable declarations   *)
(* are built.                                                              *)
(***************************************************************************)
MaxAllocs == 4

\* The types the temporaries are requested for: the two structs, and scalar
\* types among which two share a class and differ in width
TmpTypes == {StructName("Qubit"), StructName("Result"), IntType(32), IntType(64), FloatType(64)}

IoTypes == {IntType(32), IntType(64), FloatType(64)}

InitAlloc ==
    /\ symbols = RegisterStructs(SymbolTable0, BaseProfileStructs, 1)
    /\ entry_block = 0
    /\ pc = "lowering"
    /\ is_updated = FALSE
    /\ rewrites = 0
    /\ module = <<>>
    /\ last = <<>>
    /\ stream = <<>>
    /\ allocs = <<>>
    /\ locals = <<>>

\* one call symbols.alloc_tmp_var(type_ast)
AllocTmpVar ==
    /\ pc = "lowering"
    /\ Len(allocs) < MaxAllocs
    /\ \E type_ast \in TmpTypes :
          LET r == alloc_tmp_var(symbols, type_ast)
          IN /\ symbols' = r.symbols
             /\ allocs' = Append(allocs, [fn |-> "alloc_tmp_var", type_ast |-> type_ast,
                                          io_key |-> "", var_ast |-> r.var_ast])
    /\ UNCHANGED <<locals, entry_block, pc, is_updated, rewrites, module, last, stream>>

\* one call symbols.alloc_io_var(type_ast, io_key)
AllocIoVar ==
    /\ pc = "lowering"
    /\ Len(allocs) < MaxAllocs
    /\ \E type_ast \in IoTypes, io_key \in {"input", "output"} :
          LET r == alloc_io_var(symbols, type_ast, io_key)
          IN /\ symbols' = r.symbols
             /\ allocs' = Append(allocs, [fn |-> "alloc_io_var", type_ast |-> type_ast,
                                          io_key |-> io_key, var_ast |-> r.var_ast])
    /\ UNCHANGED <<locals, entry_block, pc, is_updated, rewrites, module, last, stream>>

\* build_var_declarations once lowering is over
BuildVarDeclarations ==
    /\ pc = "lowering"
    /\ last' = build_var_declarations(symbols)
    /\ pc' = "declared"
    /\ UNCHANGED <<locals, allocs, symbols, entry_block, is_updated, rewrites, module, stream>>

NextAlloc ==
    \/ AllocTmpVar
    \/ AllocIoVar
    \/ BuildVarDeclarations

SpecAlloc == InitAlloc /\ [][NextAlloc]_vars

(***************************************************************************)
(* LLVM types and values (llvmlite TypeRef / ValueRef)                     *)
(***************************************************************************)
\* A TypeRef: type_kind.name, type_width, name, and element_type as <<>> or <<t>>
TypeRef(kind, width, name, elem) == [kind |-> kind, width |-> width, name |-> name, elem |-> elem]

VoidTy == TypeRef("void", 0, "", <<>>)

IntTy(w) == TypeRef("integer", w, "", <<>>)

DoubleTy == TypeRef("double", 0, "", <<>>)

StructTy(name) == TypeRef("struct", 0, name, <<>>)

PointerTo(t) == TypeRef("pointer", 0, "", <<t>>)

\* [n x T]: a type kind type_qir2qasm has no branch for
ArrayTy == TypeRef("array", 0, "", <<>>)

QubitPtr == PointerTo(StructTy("Qubit"))

ResultPtr == PointerTo(StructTy("Result"))

\* A ValueRef used as an operand: an integer constant, `%T* null`,
\* `inttoptr (i64 index to %T*)`, or the SSA value of instruction `index`
ValueRef(kind, type, index) == [kind |-> kind, type |-> type, index |-> index]

\* _FLOAT_BIT_WIDTHS of type_qir2qasm
FloatBitWidths ==
    [k \in {"half", "float", "double", "x86_fp80", "fp128", "ppc_fp128"} |->
        CASE k = "half" -> 16
          [] k = "float" -> 32
          [] k = "double" -> 64
          [] k = "x86_fp80" -> 80
          [] OTHER -> 128]

\* The messages of the exceptions type_qir2qasm raises
PtrToPtrError == "Unsupported ptr to ptr!"

UndefinedTypeError(type_str) == type_str \o " Undefined!"

\* A type mapping that maps a pointer to a pointer as the inner pointer
RECURSIVE type_qir2qasm_Transparent(_)
type_qir2qasm_Transparent(tp) ==
    CASE tp.kind = "void" -> <<"void", NoType, "">>
      [] tp.kind \in DOMAIN FloatBitWidths ->
           <<tp.kind, FloatType(FloatBitWidths[tp.kind]), "">>
      [] tp.kind = "integer" ->
           <<"integer", IF tp.width = 1 THEN BoolType ELSE IntType(tp.width), "">>
      [] tp.kind = "struct" -> <<"struct", StructName(tp.name), "">>
      [] tp.kind = "pointer" ->
           LET type_qasm == type_qir2qasm_Transparent(tp.elem[1])
           IN IF type_qasm[3] # "" THEN type_qasm ELSE <<"pointer", type_qasm[2], "">>
      [] OTHER -> <<"", NoType, UndefinedTypeError(tp.kind)>>

\* SymbolTable.type_qir2qasm: <<type_str, type_ast, message>>, the message being
\* "" on return and the message of the exception on raise
RECURSIVE type_qir2qasm(_)
type_qir2qasm(tp) ==
    CASE tp.kind = "void" -> <<"void", NoType, "">>
      [] tp.kind \in DOMAIN FloatBitWidths ->
           <<tp.kind, FloatType(FloatBitWidths[tp.kind]), "">>
      [] tp.kind = "integer" ->
           <<"integer", IF tp.width = 1 THEN BoolType ELSE IntType(tp.width), "">>
      [] tp.kind = "struct" -> <<"struct", StructName(tp.name), "">>
      [] tp.kind = "pointer" ->
           LET type_qasm == type_qir2qasm(tp.elem[1])
           IN IF type_qasm[3] # "" THEN type_qasm
              ELSE IF type_qasm[1] # "pointer" THEN <<"pointer", type_qasm[2], "">>
              ELSE <<"", NoType, PtrToPtrError>>
      [] OTHER -> <<"", NoType, UndefinedTypeError(tp.kind)>>

\* InttoptrBuilder.building on a constant `%T* null` or `inttoptr (i64 idx to %T*)`
\* An inttoptr builder that sizes the array by the last index seen
InttoptrBuilding_LastIndex(S, op) ==
    LET op_name == op.type.elem[1].name
        idx == IF op.kind = "null" THEN 0 ELSE op.index
    IN [symbols |-> [S EXCEPT !.structs_num[op_name] = idx + 1],
        value_ast |-> IndexedIdentifier(StructOf(S, op_name).static_name, idx)]

InttoptrBuilding(S, op) ==
    LET op_name == op.type.elem[1].name
        idx == IF op.kind = "null" THEN 0 ELSE op.index
        num == S.structs_num[op_name]
    IN [symbols |-> [S EXCEPT !.structs_num[op_name] = IF num > idx + 1 THEN num ELSE idx + 1],
        value_ast |-> IndexedIdentifier(StructOf(S, op_name).static_name, idx)]

\* SymbolTable.value_qir2qasm: the updated table and the expression / identifier
value_qir2qasm(S, value_qir) ==
    CASE value_qir.kind = "int" ->
           [symbols |-> S, value_ast |-> IntegerLiteral(value_qir.index)]
      [] value_qir.kind \in {"null", "inttoptr"} -> InttoptrBuilding(S, value_qir)
      [] OTHER ->
           [symbols |-> S,
            value_ast |-> IF value_qir.index \in DOMAIN S.variables
                          THEN S.variables[value_qir.index] ELSE NoIdent]

(***************************************************************************)
(* Statements of the lowered body                                          *)
(***************************************************************************)
QuantumMeasurementStatement(qubit, target) ==
    [cls |-> "QuantumMeasurementStatement", qubit |-> qubit, target |-> target]

QuantumReset(qubits) == [cls |-> "QuantumReset", qubits |-> qubits]

FunctionCall(name, arguments) ==
    [cls |-> "FunctionCall", name |-> Identifier(name), arguments |-> arguments]

ClassicalAssignment(lvalue, rvalue) ==
    [cls |-> "ClassicalAssignment", lvalue |-> lvalue, rvalue |-> rvalue]

ExpressionStatement(expression) ==
    [cls |-> "ExpressionStatement", expression |-> expression]

CalibrationDefinition(name, arguments, qubits, return_type) ==
    [cls |-> "CalibrationDefinition", name |-> Identifier(name), arguments |-> arguments,
     qubits |-> qubits, return_type |-> return_type]

\* build_rotation_2Q_definition(name): the gate definition, body left out
QuantumGateDefinition(name) == [cls |-> "QuantumGateDefinition", name |-> Identifier(name)]

(***************************************************************************)
(* The function builders (builder.py).  Each returns the updated table,    *)
(* the result identifier (NoIdent for None), the statements, and the name  *)
(* of the exception it raised ("" for none).                               *)
(***************************************************************************)
\* A local variable: value is computed once and Body reads it as v
With(value, Body(_)) == CHOOSE r \in {Body(v) : v \in {value}} : TRUE

Built(S, ret_ident, statements, error) ==
    [symbols |-> S, ret_ident |-> ret_ident, statements |-> statements, error |-> error]

\* A measurement builder that resets the qubit after every targeted measurement
MeasurementBuilding_AlwaysReset(S, name, ret_type, operands) ==
    IF name = "m"
    THEN With(alloc_tmp_var(S, StructName("Result")), LAMBDA a :
         With(value_qir2qasm(a.symbols, operands[1]), LAMBDA q :
            Built(q.symbols, a.var_ast,
                  <<QuantumMeasurementStatement(q.value_ast, a.var_ast)>>, "")))
    ELSE With(value_qir2qasm(S, operands[2]), LAMBDA t :
         With(value_qir2qasm(t.symbols, operands[1]), LAMBDA q :
            Built(q.symbols, NoIdent,
                  <<QuantumMeasurementStatement(q.value_ast, t.value_ast),
                    QuantumReset(q.value_ast)>>, "")))

\* MeasurementBuilder(name).building
MeasurementBuilding(S, name, ret_type, operands) ==
    IF name = "m"
    THEN With(alloc_tmp_var(S, StructName("Result")), LAMBDA a :
         With(value_qir2qasm(a.symbols, operands[1]), LAMBDA q :
            Built(q.symbols, a.var_ast,
                  <<QuantumMeasurementStatement(q.value_ast, a.var_ast)>>, "")))
    ELSE With(value_qir2qasm(S, operands[2]), LAMBDA t :
         With(value_qir2qasm(t.symbols, operands[1]), LAMBDA q :
            Built(q.symbols, NoIdent,
                  <<QuantumMeasurementStatement(q.value_ast, t.value_ast)>>
                  \o (IF name = "mresetz" THEN <<QuantumReset(q.value_ast)>> ELSE <<>>),
                  "")))

\* preprocess_params, the return-type part
PreprocessReturn(S, ret_type) ==
    LET t == type_qir2qasm(ret_type)
    IN IF t[1] = "void" \/ t[3] # ""
       THEN [symbols |-> S, ret_ident |-> NoIdent, arguments |-> <<>>, qubits |-> <<>>,
             assign_ident |-> NoIdent, error |-> t[3]]
       ELSE With(alloc_tmp_var(S, t[2]), LAMBDA a :
               [symbols |-> a.symbols, ret_ident |-> a.var_ast, arguments |-> <<>>,
                qubits |-> IF t[2] = StructName("Qubit") THEN <<a.var_ast>> ELSE <<>>,
                assign_ident |-> IF t[2] = StructName("Qubit") THEN NoIdent ELSE a.var_ast,
                error |-> ""])

\* preprocess_params, the loop over the operands from the i-th on
RECURSIVE PreprocessOperands(_, _, _)
PreprocessOperands(params, operands, i) ==
    With(params, LAMBDA acc :
    IF i > Len(operands) \/ acc.error # "" THEN acc
    ELSE LET op == operands[i]
             t == type_qir2qasm(op.type)
         IN IF t[3] # "" THEN [acc EXCEPT !.error = t[3]]
            ELSE
            With(value_qir2qasm(acc.symbols, op), LAMBDA v :
            IF t[2] = StructName("Qubit")
            THEN PreprocessOperands(
                     [acc EXCEPT !.symbols = v.symbols,
                                 !.qubits = Append(acc.qubits, v.value_ast)],
                     operands, i + 1)
            ELSE With([acc EXCEPT
                         !.symbols = v.symbols,
                         !.arguments = Append(acc.arguments,
                                              identifier2expression(v.value_ast))],
                      LAMBDA acc1 :
                    IF t[1] # "pointer"
                    THEN PreprocessOperands(acc1, operands, i + 1)
                    ELSE IF acc.assign_ident # NoIdent
                    THEN [acc1 EXCEPT !.error = "AssertionError"]
                    ELSE With(value_qir2qasm(v.symbols, op), LAMBDA w :
                            PreprocessOperands(
                                [acc1 EXCEPT !.symbols = w.symbols,
                                             !.assign_ident = w.value_ast],
                                operands, i + 1)))))

\* preprocess_params
preprocess_params(S, ret_type, operands) ==
    PreprocessOperands(PreprocessReturn(S, ret_type), operands, 1)

\* A call expression with the qubits ahead of the classical arguments
CallArguments_QubitsFirst(arguments, qubits) ==
    [k \in DOMAIN qubits |-> identifier2expression(qubits[k])] \o arguments

\* DefCalBuilder.building: arguments + [identifier2expression(q) for q in qubits]
CallArguments(arguments, qubits) ==
    arguments \o [k \in DOMAIN qubits |-> identifier2expression(qubits[k])]

\* DefCalBuilder(name).building
DefCalBuilding(S, name, ret_type, operands) ==
    With(preprocess_params(S, ret_type, operands), LAMBDA p :
       LET expression == FunctionCall(name, CallArguments(p.arguments, p.qubits))
       IN IF p.error # "" THEN Built(p.symbols, NoIdent, <<>>, p.error)
          ELSE Built(p.symbols, p.ret_ident,
                     <<IF p.assign_ident # NoIdent
                       THEN ClassicalAssignment(p.assign_ident, expression)
                       ELSE ExpressionStatement(expression)>>, ""))

\* InputBuilder.building
InputBuilding(S, ret_type, operands) ==
    With(alloc_io_var(S, type_qir2qasm(ret_type)[2], "input"), LAMBDA r :
       Built(r.symbols, r.var_ast, <<>>, ""))

\* OutputBuilder.building
OutputBuilding(S, ret_type, operands) ==
    LET op_type == type_qir2qasm(operands[1].type)[2]
    IN With(value_qir2qasm(S, operands[1]), LAMBDA v :
       With(alloc_io_var(v.symbols, op_type, "output"), LAMBDA r :
          Built(r.symbols, NoIdent,
                <<ClassicalAssignment(r.var_ast, identifier2expression(v.value_ast))>>, "")))

\* FunctionInfo, and the builder object as its class and constructor argument
FunctionInfo(ret, args, def_statement, builder_cls, builder_arg) ==
    [type |-> [ret |-> ret, args |-> args], def_statement |-> def_statement,
     builder |-> [cls |-> builder_cls, name |-> builder_arg]]

NoStatement == [cls |-> "None"]

\* func_builder.building(symbols, ret_type, operands)
Building(S, builder, ret_type, operands) ==
    CASE builder.cls = "MeasurementBuilder" ->
           MeasurementBuilding(S, builder.name, ret_type, operands)
      [] builder.cls = "DefCalBuilder" -> DefCalBuilding(S, builder.name, ret_type, operands)
      [] builder.cls = "InputBuilder" -> InputBuilding(S, ret_type, operands)
      [] builder.cls = "OutputBuilder" -> OutputBuilding(S, ret_type, operands)
      [] OTHER -> Built(S, NoIdent, <<>>, "")

\* A call instruction: its SSA number, callee, result type and operands
CallInst(id, callee, type, operands) ==
    [id |-> id, callee |-> callee, type |-> type, operands |-> operands]

\* QASM3Builder.build_func_call
build_func_call(S, inst) ==
    LET func_info == S.functions[inst.callee]
    IN With(Building(S, func_info.builder, inst.type, inst.operands), LAMBDA r :
          IF r.error = "" /\ r.ret_ident # NoIdent
          THEN [r EXCEPT !.symbols.variables = put(r.symbols.variables, inst.id, r.ret_ident)]
          ELSE r)

(***************************************************************************)
(* The profile's functions and build_func_declarations                     *)
(***************************************************************************)
\* BaseProfile._define_functions, the functions the modules below declare
StandardNames ==
    {"__quantum__qis__m__body", "__quantum__qis__mz__body", "__quantum__qis__mresetz__body",
     "__quantum__qis__rxx__body", "get_int", "take_int"}

standard_functions ==
    [n \in StandardNames |->
        CASE n = "__quantum__qis__m__body" ->
               FunctionInfo(ResultPtr, <<QubitPtr>>, NoStatement, "MeasurementBuilder", "m")
          [] n = "__quantum__qis__mz__body" ->
               FunctionInfo(VoidTy, <<QubitPtr, ResultPtr>>, NoStatement,
                            "MeasurementBuilder", "mz")
          [] n = "__quantum__qis__mresetz__body" ->
               FunctionInfo(VoidTy, <<QubitPtr, ResultPtr>>, NoStatement,
                            "MeasurementBuilder", "mresetz")
          [] n = "__quantum__qis__rxx__body" ->
               FunctionInfo(VoidTy, <<DoubleTy, QubitPtr, QubitPtr>>,
                            QuantumGateDefinition("rxx"), "GateBuilder", "rxx")
          [] n = "get_int" -> FunctionInfo(IntTy(32), <<>>, NoStatement, "InputBuilder", "")
          [] OTHER -> FunctionInfo(VoidTy, <<IntTy(32)>>, NoStatement, "OutputBuilder", "")]

\* A function of the module: name, return type, argument types
Function(name, ret, args) == [name |-> name, ret |-> ret, args |-> args]

\* the struct's registered type_ast for a struct name, the type itself otherwise
ResolveStruct(S, type_ast) ==
    IF type_ast.cls = "str" THEN StructOf(S, type_ast.name).type_ast ELSE type_ast

\* The message of the exception build_func_declarations raises
TooMuchReturnError == "Too much return value!"

\* The loop over the argument types with a later classical pointer replacing
\* the return type instead of raising
RECURSIVE DefcalArguments_LastWins(_, _, _, _)
DefcalArguments_LastWins(S, signature, args, i) ==
    With(signature, LAMBDA acc :
    IF i > Len(args) \/ acc.error # "" THEN acc
    ELSE LET t == type_qir2qasm(args[i])
             op_type_ast == ResolveStruct(S, t[2])
         IN IF t[3] # "" THEN [acc EXCEPT !.error = t[3]]
            ELSE
            With(IF op_type_ast = StructName("Qubit")
                 THEN [acc EXCEPT !.num_qubits = acc.num_qubits + 1]
                 ELSE [acc EXCEPT !.arguments = Append(acc.arguments, op_type_ast)],
                 LAMBDA acc1 :
            IF t[1] = "pointer" /\ op_type_ast.cls \notin {"str", "None"}
            THEN DefcalArguments_LastWins(S, [acc1 EXCEPT !.ret_type_ast = op_type_ast],
                                          args, i + 1)
            ELSE DefcalArguments_LastWins(S, acc1, args, i + 1)))

\* build_func_declarations, unknown function: the loop over the argument types
RECURSIVE DefcalArguments(_, _, _, _)
DefcalArguments(S, signature, args, i) ==
    With(signature, LAMBDA acc :
    IF i > Len(args) \/ acc.error # "" THEN acc
    ELSE LET t == type_qir2qasm(args[i])
             op_type_ast == ResolveStruct(S, t[2])
         IN IF t[3] # "" THEN [acc EXCEPT !.error = t[3]]
            ELSE
            With(IF op_type_ast = StructName("Qubit")
                 THEN [acc EXCEPT !.num_qubits = acc.num_qubits + 1]
                 ELSE [acc EXCEPT !.arguments = Append(acc.arguments, op_type_ast)],
                 LAMBDA acc1 :
            IF t[1] = "pointer" /\ op_type_ast.cls \notin {"str", "None"}
            THEN IF acc1.ret_type_ast = NoType
                 THEN DefcalArguments(S, [acc1 EXCEPT !.ret_type_ast = op_type_ast], args, i + 1)
                 ELSE [acc1 EXCEPT !.error = TooMuchReturnError]
            ELSE DefcalArguments(S, acc1, args, i + 1)))

\* build_func_declarations, unknown function: the CalibrationDefinition
DefcalDeclaration(S, func) ==
    LET ret == type_qir2qasm(func.ret)
        ret_type_ast == ResolveStruct(S, ret[2])
        ret_qubit == ret_type_ast = StructName("Qubit")
    IN With(DefcalArguments(S,
                [arguments |-> <<>>, num_qubits |-> 0,
                 ret_type_ast |-> IF ret_qubit THEN NoType ELSE ret_type_ast,
                 error |-> ret[3]],
                func.args, 1),
            LAMBDA acc :
       LET qubits == (IF ret_qubit THEN <<Identifier("q_ret")>> ELSE <<>>)
                     \o (IF acc.num_qubits = 1 THEN <<Identifier("q")>>
                         ELSE [k \in 1..acc.num_qubits |-> Identifier("q" \o ToString(k - 1))])
       IN [statement |->
               CalibrationDefinition(func.name, acc.arguments, qubits, acc.ret_type_ast),
           error |-> acc.error])

\* func.is_declaration: the function has no body
is_declaration(func) == "blocks" \notin DOMAIN func

\* build_func_declarations, the loop over module.functions from the i-th on
RECURSIVE DeclareFunctions(_, _, _)
DeclareFunctions(declared, funcs, i) ==
    With(declared, LAMBDA acc :
    IF i > Len(funcs) \/ acc.error # "" THEN acc
    ELSE LET func == funcs[i]
         IN IF ~is_declaration(func) THEN DeclareFunctions(acc, funcs, i + 1)
            ELSE
            IF func.name \in DOMAIN standard_functions
            THEN LET func_info == standard_functions[func.name]
                 IN DeclareFunctions(
                        [acc EXCEPT
                           !.symbols.functions = put(acc.symbols.functions, func.name, func_info),
                           !.definition_statements =
                               IF func_info.def_statement # NoStatement
                               THEN Append(acc.definition_statements, func_info.def_statement)
                               ELSE acc.definition_statements],
                        funcs, i + 1)
            ELSE With(DefcalDeclaration(acc.symbols, func), LAMBDA d :
                    IF d.error # "" THEN [acc EXCEPT !.error = d.error]
                    ELSE DeclareFunctions(
                        [acc EXCEPT
                           !.symbols.functions =
                               put(acc.symbols.functions, func.name,
                                   FunctionInfo(func.ret, func.args, NoStatement,
                                                "DefCalBuilder", func.name)),
                           !.declaration_statements =
                               Append(acc.declaration_statements, d.statement)],
                        funcs, i + 1)))

\* QASM3Builder.build_func_declarations
build_func_declarations(S, funcs) ==
    With([RegisterStructs(S, BaseProfileStructs, 1) EXCEPT !.instructions = <<"inttoptr">>],
         LAMBDA registered :
    With(DeclareFunctions([symbols |-> registered, declaration_statements |-> <<>>,
                           definition_statements |-> <<>>, error |-> ""],
                          funcs, 1),
         LAMBDA acc :
       [symbols |-> acc.symbols,
        statements |-> acc.declaration_statements \o acc.definition_statements,
        error |-> acc.error]))

(***************************************************************************)
(* build_program on a module whose entry function is one block of calls:   *)
(* the module declares the measurement and I/O intrinsics, the rxx gate    *)
(* and one extern the profile does not know; the block calls them in any   *)
(* order, at most MaxInst times, and returns.                              *)
(***************************************************************************)
MaxInst == 2

\* The extern's return types and argument lists
ExternRets == {VoidTy, QubitPtr, IntTy(32), PointerTo(ResultPtr)}

ExternArgs ==
    {<<>>, <<QubitPtr>>, <<ResultPtr>>, <<ResultPtr, QubitPtr>>, <<QubitPtr, ResultPtr>>,
     <<QubitPtr, ResultPtr, QubitPtr>>, <<IntTy(32), ResultPtr, QubitPtr>>,
     <<ResultPtr, IntTy(32), QubitPtr>>, <<ResultPtr, ResultPtr>>,
     <<PointerTo(QubitPtr)>>, <<QubitPtr, PointerTo(PointerTo(PointerTo(IntTy(32))))>>,
     <<ResultPtr, PointerTo(QubitPtr)>>, <<PointerTo(PointerTo(ArrayTy))>>}

Intrinsics ==
    <<Function("__quantum__qis__m__body", ResultPtr, <<QubitPtr>>),
      Function("__quantum__qis__mz__body", VoidTy, <<QubitPtr, ResultPtr>>),
      Function("__quantum__qis__mresetz__body", VoidTy, <<QubitPtr, ResultPtr>>),
      Function("get_int", IntTy(32), <<>>),
      Function("take_int", VoidTy, <<IntTy(32)>>)>>

RxxGate == Function("__quantum__qis__rxx__body", VoidTy, <<DoubleTy, QubitPtr, QubitPtr>>)

\* The module's extern
Extern == CHOOSE f \in {module.functions[i] : i \in DOMAIN module.functions} :
              f.name \notin StandardNames

\* What build_func_call leaves of a call: the instruction, the builder's result
\* and the counters and bindings as they were before the call
NoCall ==
    [inst |-> CallInst(0, "", VoidTy, <<>>), ret_ident |-> NoIdent, statements |-> <<>>,
     before |-> [structs_tmp_num |-> EmptyMap, classical_tmp_num |-> EmptyMap,
                 variables |-> EmptyMap]]

\* Exporter.dump: Program(version="3.0", statements)
Program(statements) == <<"OPENQASM 3.0">> \o statements

InitLower ==
    /\ \E includes \in {<<>>, <<"stdgates.inc">>}, ret \in ExternRets, args \in ExternArgs,
          gate_first \in BOOLEAN :
          module = [includes |-> includes,
                    functions |-> Intrinsics
                                  \o (IF gate_first
                                      THEN <<RxxGate, Function("ext", ret, args)>>
                                      ELSE <<Function("ext", ret, args), RxxGate>>)]
    /\ symbols = SymbolTable0
    /\ entry_block = 0
    /\ pc = "build_func_declarations"
    /\ is_updated = FALSE
    /\ rewrites = 0
    /\ last = NoCall
    /\ stream = <<>>
    /\ allocs = <<>>
    /\ locals = [func_decl_statements |-> <<>>, statements |-> <<>>]

\* build_program: func_decl_statements = self.build_func_declarations()
BuildFuncDeclarations ==
    /\ pc = "build_func_declarations"
    /\ \E r \in {build_func_declarations(symbols, module.functions)} :
          /\ symbols' = r.symbols
          /\ IF r.error # ""
             THEN /\ pc' = r.error
                  /\ UNCHANGED <<locals, entry_block>>
             ELSE /\ pc' = "build_block"
                  /\ locals' = [locals EXCEPT !.func_decl_statements = r.statements]
                  /\ entry_block' = 1
    /\ UNCHANGED <<allocs, is_updated, rewrites, module, last, stream>>

\* The operands a call can pass for a parameter of type tp: constants, and the
\* SSA value of the previous instruction when it has that type
Operands(tp) ==
    (CASE tp = QubitPtr -> {ValueRef("null", tp, 0), ValueRef("inttoptr", tp, 1)}
       [] tp = ResultPtr -> {ValueRef("inttoptr", tp, 1)}
       [] OTHER -> {ValueRef("int", tp, 5)})
    \cup (IF last.ret_ident # NoIdent /\ last.inst.type = tp
          THEN {ValueRef("ssa", tp, last.inst.id)} ELSE {})

OperandLists(args) ==
    {ops \in [DOMAIN args -> UNION {Operands(args[k]) : k \in DOMAIN args}] :
        \A k \in DOMAIN args : ops[k] \in Operands(args[k])}

\* build_block: build_instruction on one call instruction of the entry block
LowerCall(inst) ==
    /\ pc = "build_block"
    /\ rewrites < MaxInst
    /\ \E r \in {build_func_call(symbols, inst)} :
          /\ symbols' = r.symbols
          /\ IF r.error # ""
             THEN /\ pc' = r.error
                  /\ UNCHANGED <<locals, last>>
             ELSE /\ pc' = pc
                  /\ locals' = [locals EXCEPT !.statements = locals.statements \o r.statements]
                  /\ last' = [inst |-> inst, ret_ident |-> r.ret_ident,
                              statements |-> r.statements,
                              before |-> [structs_tmp_num |-> symbols.structs_tmp_num,
                                          classical_tmp_num |-> symbols.classical_tmp_num,
                                          variables |-> symbols.variables]]
    /\ rewrites' = rewrites + 1
    /\ UNCHANGED <<allocs, entry_block, is_updated, module, stream>>

\* a call of __quantum__qis__m__body, mz or mresetz
CallMeasurement ==
    /\ pc = "build_block"
    /\ \E f \in {Intrinsics[1], Intrinsics[2], Intrinsics[3]} :
          \E ops \in OperandLists(f.args) :
             LowerCall(CallInst(rewrites + 1, f.name, f.ret, ops))

\* a call of the extern
CallExtern ==
    /\ pc = "build_block"
    /\ \E ops \in OperandLists(Extern.args) :
          LowerCall(CallInst(rewrites + 1, Extern.name, Extern.ret, ops))

\* a call of get_int or take_int
CallIO ==
    /\ pc = "build_block"
    /\ \E f \in {Intrinsics[4], Intrinsics[5]} :
          \E ops \in OperandLists(f.args) :
             LowerCall(CallInst(rewrites + 1, f.name, f.ret, ops))

\* The rest of build_program once the block's calls are lowered: build_block on
\* `ret`, build_control (the CFG is the entry block alone, no pattern matches, the
\* assertion holds) and the return of build_main, then build_var_declarations, the
\* concatenation, and the printer's visit
BuildProgram ==
    /\ pc = "build_block"
    /\ \E br \in {put(symbols.block_branchs, entry_block, BranchInfo(None, <<>>))} :
          symbols' = [symbols EXCEPT
                        !.block_branchs = br,
                        !.block_statements =
                            put(symbols.block_statements, entry_block, locals.statements),
                        !.cfg = BuildCfg(br)]
    /\ stream' = Program([k \in DOMAIN module.includes |-> Include(module.includes[k])]
                         \o build_var_declarations(symbols)
                         \o locals.func_decl_statements
                         \o locals.statements)
    /\ pc' = "done"
    /\ UNCHANGED <<locals, allocs, entry_block, is_updated, rewrites, module, last>>

NextLower ==
    \/ BuildFuncDeclarations
    \/ CallMeasurement
    \/ CallExtern
    \/ CallIO
    \/ BuildProgram

SpecLower == InitLower /\ [][NextLower]_vars

(***************************************************************************)
(* Shapes of the input CFG                                                 *)
(***************************************************************************)
\* A chain: no block branches two ways and some block returns; all blocks being
\* reachable from block 1, the blocks form one path that ends in the return.
IsChain ==
    /\ \A b \in DOMAIN module : Len(module[b].branch_targets) <= 1
    /\ \E b \in DOMAIN module : module[b].branch_targets = <<>>

\* The statements of the chain from block b on, in chain order
RECURSIVE ChainStatements(_, _)
ChainStatements(b, k) ==
    IF k = 0 THEN <<>>
    ELSE BlockStatements0(b) \o
         (IF module[b].branch_targets = <<>> THEN <<>>
          ELSE ChainStatements(module[b].branch_targets[1], k - 1))

\* The 4-node diamond: block 1 branches to two blocks that both branch to a
\* fourth, which returns.
IsDiamond ==
    /\ NBlocks = 4
    /\ Len(module[1].branch_targets) = 2
    /\ LET t == module[1].branch_targets[1]
           f == module[1].branch_targets[2]
       IN /\ Len(module[t].branch_targets) = 1
          /\ module[t].branch_targets = module[f].branch_targets
          /\ module[t].branch_targets[1] \notin {1, t, f}
          /\ module[module[t].branch_targets[1]].branch_targets = <<>>

\* The 3-block if-without-else: block 1 branches to B and D, B branches to D,
\* D returns.  TriangleArm is B, TriangleJoin is D.
IsTriangle ==
    /\ NBlocks = 3
    /\ Len(module[1].branch_targets) = 2
    /\ \E b \in {2, 3} :
          /\ module[b].branch_targets = <<5 - b>>
          /\ module[5 - b].branch_targets = <<>>

TriangleArm == CHOOSE b \in {2, 3} : module[b].branch_targets = <<5 - b>>

TriangleJoin == 5 - TriangleArm

NumIfs(stmts) == Cardinality({i \in DOMAIN stmts : stmts[i].kind = "if"})

(***************************************************************************)
(* C1: SeqPattern.building on a chain of N >= 1 blocks ends (no match is    *)
(* left) with exactly one CFG node, the first block of the chain, whose     *)
(* statement list is the concatenation of the N original lists in chain     *)
(* order, after N - 1 rewrites; for N = 1 no rewrite is performed.          *)
(***************************************************************************)
C1_SeqChain ==
    (IsChain /\ pc = "seq") =>
        /\ rewrites <= NBlocks - 1
        /\ matching(SeqPattern, symbols.cfg) = {} =>
              /\ symbols.cfg.nodes = {1}
              /\ symbols.block_statements[1] = ChainStatements(1, NBlocks)
              /\ rewrites = NBlocks - 1

C1_Witness ==
    /\ IsChain
    /\ NBlocks = 4
    /\ pc = "seq"
    /\ matching(SeqPattern, symbols.cfg) = {}
    /\ Len(symbols.block_statements[1]) = 4

(***************************************************************************)
(* C2: on the 4-node diamond IfPattern1.building appends to block A exactly *)
(* one conditional statement; its condition is A's recorded condition       *)
(* unchanged, its if-arm the statements of A's first (true) target and its  *)
(* else-arm those of A's second target, whichever block the matcher binds   *)
(* to role B.                                                               *)
(***************************************************************************)
C2_Diamond ==
    IsDiamond =>
        LET own == BlockStatements0(1)
            st == symbols.block_statements[1]
        IN /\ (pc \in {"seq", "if1"} /\ rewrites = 0) => st = own
           /\ rewrites >= 1 =>
                /\ SubSeq(st, 1, Len(own) + 1) =
                      Append(own,
                             BranchingStatement(
                                 CondOf(1),
                                 BlockStatements0(module[1].branch_targets[1]),
                                 BlockStatements0(module[1].branch_targets[2])))
                /\ NumIfs(st) = 1

C2_Witness ==
    /\ IsDiamond
    /\ pc = "if1"
    /\ rewrites = 1
    /\ NumIfs(symbols.block_statements[1]) = 1
    /\ module[1].branch_targets[1] > module[1].branch_targets[2]

(***************************************************************************)
(* C3: for the if-without-else CFG build_control ends with exactly one CFG  *)
(* node, and the entry block holds A's statements, one conditional with B's *)
(* statements in the arm selected by A's true target and the other arm      *)
(* empty, then D's statements.                                              *)
(***************************************************************************)
C3_IfThen ==
    (IsTriangle /\ pc \in {"assert", "returned", "AssertionError", "done"}) =>
        /\ Cardinality(symbols.cfg.nodes) = 1
        /\ symbols.block_statements[1] =
              BlockStatements0(1)
              \o <<IF module[1].branch_targets[1] = TriangleArm
                   THEN BranchingStatement(CondOf(1), BlockStatements0(TriangleArm), <<>>)
                   ELSE BranchingStatement(CondOf(1), <<>>, BlockStatements0(TriangleArm))>>
              \o BlockStatements0(TriangleJoin)

(***************************************************************************)
(* C4: build_main returns a statement list only when the CFG has exactly    *)
(* one node; when structuring stops with more than one node the translation *)
(* aborts, nothing is returned and nothing is written to the stream.        *)
(***************************************************************************)
C4_NoPartialProgram ==
    /\ pc \in {"returned", "done"} => Cardinality(symbols.cfg.nodes) = 1
    /\ Cardinality(symbols.cfg.nodes) > 1 => (last = <<>> /\ stream = <<>>)
    /\ pc = "AssertionError" => (last = <<>> /\ stream = <<>>)
    /\ stream # <<>> =>
          /\ pc = "done"
          /\ stream = <<"OPENQASM 3.0">> \o symbols.block_statements[entry_block]

C4_Witness ==
    /\ pc = "AssertionError"
    /\ Cardinality(symbols.cfg.nodes) > 1
    /\ rewrites >= 1
    /\ stream = <<>>

\* C5: with a two-block loop whose test block has another predecessor, every
\* step of isolate_while_pattern-to-fixpoint, WhilePattern and SeqPattern
\* leaves the executions from the entry block of the input CFG (up to MaxTrace
\* events) unchanged.
C5_LoopPathsPreserved ==
    (entry_block = 1 /\ pc # "build_main" /\ pc # "build_control")
        => Executions(symbols, 1) = Executions0(1)

\* the loop was isolated and rewritten into a while statement, and some
\* execution from the entry runs its body twice before leaving
C5_Witness ==
    /\ pc = "while_done"
    /\ symbols.tmp_block_num > 0
    /\ \E b \in DOMAIN symbols.block_statements :
          \E i \in DOMAIN symbols.block_statements[b] :
             symbols.block_statements[b][i].kind = "while"
    /\ \E t \in Executions(symbols, 1) :
          \E b \in Blocks :
             Cardinality({i \in DOMAIN t : t[i] = <<b, 0, 1>> \/ t[i] = <<b, 0, 0>>}) >= 3

(***************************************************************************)
(* Allocation histories                                                     *)
(***************************************************************************)
\* the calls of allocs made by fn for which Sel holds, in call order
CallsOf(fn, Sel(_)) == SelectSeq(allocs, LAMBDA c : c.fn = fn /\ Sel(c))

TmpCallsFor(type_ast) == CallsOf("alloc_tmp_var", LAMBDA c : c.type_ast = type_ast)

IoCallsFor(io_key) == CallsOf("alloc_io_var", LAMBDA c : c.io_key = io_key)

\* C7: the K calls of alloc_tmp_var made for one type return the indices
\* 0, 1, ..., K-1 in call order, whatever calls for other types (a scalar type
\* of the same kind and another width included) come in between.
C7_IndicesPerType ==
    \A type_ast \in TmpTypes :
        \A k \in DOMAIN TmpCallsFor(type_ast) :
            TmpCallsFor(type_ast)[k].var_ast.index = k - 1

\* C8: the k-th alloc_io_var call (0-based) of a role returns the identifier
\* <TypeName>_<i|o><k>; all identifiers returned are pairwise distinct; the
\* I/O declarations list each role's identifiers in allocation order.
C8_IoIdentifiers ==
    /\ \A io_key \in {"input", "output"} :
          \A k \in DOMAIN IoCallsFor(io_key) :
              IoCallsFor(io_key)[k].var_ast =
                  Identifier(ClassName(IoCallsFor(io_key)[k].type_ast) \o "_"
                             \o (IF io_key = "input" THEN "i" ELSE "o")
                             \o ToString(k - 1))
    /\ \A i, j \in DOMAIN allocs :
          (i # j /\ allocs[i].fn = "alloc_io_var" /\ allocs[j].fn = "alloc_io_var")
              => allocs[i].var_ast # allocs[j].var_ast
    /\ pc = "declared" =>
          \A io_key \in {"input", "output"} :
              LET decls == SelectSeq(last, LAMBDA d : d.cls = "IODeclaration" /\ d.io = io_key)
              IN /\ Len(decls) = Len(IoCallsFor(io_key))
                 /\ \A k \in DOMAIN decls :
                       /\ decls[k].identifier = IoCallsFor(io_key)[k].var_ast
                       /\ decls[k].type = IoCallsFor(io_key)[k].type_ast

\* two inputs of different types and two outputs were allocated, interleaved,
\* and declared
C8_Witness ==
    /\ pc = "declared"
    /\ Len(IoCallsFor("input")) = 2
    /\ Len(IoCallsFor("output")) = 2
    /\ IoCallsFor("input")[1].type_ast # IoCallsFor("input")[2].type_ast
    /\ allocs[1].io_key = "output"
    /\ allocs[2].io_key = "input"
    /\ allocs[3].io_key = "output"

(***************************************************************************)
(* The assembled program and the lowered calls                             *)
(***************************************************************************)
\* The statements of the Program after its version
ProgramStatements == Tail(stream)

ArrayNames == {BaseProfileStructs[k].name \o sfx :
                  k \in DOMAIN BaseProfileStructs, sfx \in {"s", "s_tmp"}}

ValueArrayNames == {BaseProfileStructs[k].name \o "s" : k \in DOMAIN BaseProfileStructs}

IsArrayDeclaration(d) == d.cls \in {"QubitDeclaration", "ClassicalDeclaration"}

IsStructArray(d) == IsArrayDeclaration(d) /\ d.identifier.name \in ArrayNames

\* The place of a struct's array among the struct arrays: registration order,
\* the value array of a struct, then its temporary array
ArrayPlace(d) ==
    CHOOSE p \in 1..(2 * Len(BaseProfileStructs)) :
        d.identifier.name = BaseProfileStructs[(p + 1) \div 2].name
                            \o (IF p % 2 = 1 THEN "s" ELSE "s_tmp")

\* The groups with the value arrays of all structs ahead of all temporary arrays
GroupValuesFirst(d) ==
    CASE d.cls = "Include" -> 1
      [] IsStructArray(d) /\ d.identifier.name \in ValueArrayNames -> 2
      [] IsStructArray(d) -> 3
      [] IsArrayDeclaration(d) -> 4
      [] d.cls = "IODeclaration" /\ d.io = "input" -> 5
      [] d.cls = "IODeclaration" -> 6
      [] d.cls = "CalibrationDefinition" -> 7
      [] d.cls = "QuantumGateDefinition" -> 8
      [] OTHER -> 9

\* The groups with the arrays of the structs as one group
Group(d) == IF IsStructArray(d) THEN 2 ELSE GroupValuesFirst(d)

\* C6 as stated: in the statement list of build_program no statement of a later
\* group precedes one of an earlier group, the groups being includes, all struct
\* value arrays, all struct temporary arrays, classical temporary arrays, input
\* declarations, output declarations, calibration definitions, gate definitions, body
C6_ValueArraysBeforeTemporaries ==
    pc = "done" =>
        \A i, j \in DOMAIN ProgramStatements :
            i < j => GroupValuesFirst(ProgramStatements[i]) <= GroupValuesFirst(ProgramStatements[j])

\* C6 amended: the groups appear in the order includes, struct arrays, classical
\* temporary arrays, input declarations, output declarations, calibration
\* definitions, gate definitions, body; the struct arrays are ordered struct by
\* struct in registration order, a struct's value array directly ahead of its
\* temporary array; each other group is in registration / allocation order
C6_GroupsInOrder ==
    pc = "done" =>
        LET P == ProgramStatements
            OfGroup(g) == SelectSeq(P, LAMBDA d : Group(d) = g)
        IN /\ \A i, j \in DOMAIN P : i < j =>
                 /\ Group(P[i]) <= Group(P[j])
                 /\ (IsStructArray(P[i]) /\ IsStructArray(P[j]))
                        => ArrayPlace(P[i]) < ArrayPlace(P[j])
           /\ OfGroup(1) = [k \in DOMAIN module.includes |-> Include(module.includes[k])]
           /\ LET temps == SelectSeq(symbols.classical_tmp,
                                     LAMBDA c : symbols.classical_tmp_num[c.name] > 0)
              IN [k \in DOMAIN OfGroup(4) |-> OfGroup(4)[k].identifier.name]
                    = [k \in DOMAIN temps |-> temps[k].name \o "_tmp"]
           /\ \A io \in {"input", "output"} :
                 LET g == IF io = "input" THEN 5 ELSE 6
                 IN [k \in DOMAIN OfGroup(g) |-> OfGroup(g)[k].identifier]
                       = [k \in DOMAIN symbols.io_variables[io] |->
                             symbols.io_variables[io][k][2]]
           /\ OfGroup(7) \o OfGroup(8) = locals.func_decl_statements
           /\ [k \in DOMAIN OfGroup(7) |-> OfGroup(7)[k].name.name]
                 = SelectSeq([k \in DOMAIN module.functions |-> module.functions[k].name],
                             LAMBDA n : n \notin StandardNames)
           /\ OfGroup(9) = locals.statements

\* A program with an include, a calibration definition, a gate definition, a body,
\* and the temporary array of the first struct ahead of the value array of the second
C6_Witness ==
    /\ pc = "done"
    /\ locals.statements # <<>>
    /\ \E i, j, k, l, m \in DOMAIN ProgramStatements :
          /\ i < j /\ j < k /\ k < l /\ l < m
          /\ ProgramStatements[i].cls = "Include"
          /\ IsStructArray(ProgramStatements[j])
          /\ ProgramStatements[j].identifier.name = "Qubits_tmp"
          /\ IsStructArray(ProgramStatements[k])
          /\ ProgramStatements[k].identifier.name = "Results"
          /\ ProgramStatements[l].cls = "CalibrationDefinition"
          /\ ProgramStatements[m].cls = "QuantumGateDefinition"

\* The last call is the latest instruction lowered, and it was lowered without error
Lowered == last.inst.id > 0 /\ rewrites = last.inst.id

\* value_qir2qasm of an operand of the last call, in the table as the call found it
ValueOf(op) == value_qir2qasm([symbols EXCEPT !.variables = last.before.variables], op).value_ast

TemporariesUnchanged ==
    /\ symbols.structs_tmp_num = last.before.structs_tmp_num
    /\ symbols.classical_tmp_num = last.before.classical_tmp_num

NoResultBound ==
    /\ last.ret_ident = NoIdent
    /\ symbols.variables = last.before.variables

\* The last call is to the void extern, with one %Result* operand, the other
\* operands being qubits or classical values
VoidExternWithPointer ==
    /\ Lowered
    /\ last.inst.callee = "ext"
    /\ last.inst.type = VoidTy
    /\ Cardinality({k \in DOMAIN last.inst.operands :
                       last.inst.operands[k].type = ResultPtr}) = 1

\* C9: the call of a void extern with one classical-pointer operand lowers to
\* exactly one statement, an assignment to the value-mapping of the pointer operand
\* of a call whose arguments are the classical operands in operand order, then the
\* qubit operands in operand order; no temporary counter changes and no result
\* identifier is bound
C9_VoidExternAssignment ==
    VoidExternWithPointer =>
        LET operands == last.inst.operands
            pointer == operands[CHOOSE k \in DOMAIN operands : operands[k].type = ResultPtr]
            classical == SelectSeq(operands, LAMBDA o : o.type # QubitPtr)
            qubits == SelectSeq(operands, LAMBDA o : o.type = QubitPtr)
            Argument(o) == identifier2expression(ValueOf(o))
        IN /\ last.statements =
                 <<ClassicalAssignment(
                      ValueOf(pointer),
                      FunctionCall("ext",
                                   [k \in DOMAIN classical |-> Argument(classical[k])]
                                   \o [k \in DOMAIN qubits |-> Argument(qubits[k])]))>>
           /\ TemporariesUnchanged
           /\ NoResultBound

\* A void extern called with a qubit, the pointer, and another qubit
C9_Witness ==
    /\ VoidExternWithPointer
    /\ pc = "done"
    /\ Len(last.inst.operands) = 3
    /\ last.inst.operands[1].type = QubitPtr
    /\ last.inst.operands[3].type = QubitPtr
    /\ last.inst.operands[1] # last.inst.operands[3]
    /\ Len(last.statements) = 1

MeasurementNames == {Intrinsics[1].name, Intrinsics[2].name, Intrinsics[3].name}

\* C10: a measurement call lowers to exactly one measurement statement of its
\* qubit.  m allocates one Result temporary, which is the result identifier and the
\* target, and emits nothing else.  mz and mresetz allocate nothing, return no
\* result identifier and target the value-mapping of their second operand; mz
\* emits nothing else, mresetz emits a reset of the same qubit after the measurement
C10_Measurement ==
    (Lowered /\ last.inst.callee \in MeasurementNames) =>
        LET operands == last.inst.operands
            qubit == ValueOf(operands[1])
        IN IF last.inst.callee = Intrinsics[1].name
           THEN LET n == last.before.structs_tmp_num["Result"]
                    tmp == IndexedIdentifier("Results_tmp", n)
                IN /\ symbols.structs_tmp_num =
                         [last.before.structs_tmp_num EXCEPT !["Result"] = n + 1]
                   /\ symbols.classical_tmp_num = last.before.classical_tmp_num
                   /\ last.ret_ident = tmp
                   /\ last.statements = <<QuantumMeasurementStatement(qubit, tmp)>>
           ELSE /\ TemporariesUnchanged
                /\ NoResultBound
                /\ last.statements =
                      <<QuantumMeasurementStatement(qubit, ValueOf(operands[2]))>>
                      \o (IF last.inst.callee = Intrinsics[3].name
                          THEN <<QuantumReset(qubit)>> ELSE <<>>)

\* m measured into a temporary, then mresetz measures into that temporary and resets
C10_Witness ==
    /\ Lowered
    /\ pc = "done"
    /\ last.inst.callee = Intrinsics[3].name
    /\ last.inst.operands[2].kind = "ssa"
    /\ symbols.structs_tmp_num["Result"] = 1
    /\ Len(last.statements) = 2
    /\ last.statements[2].cls = "QuantumReset"

(***************************************************************************)
(* build_main on a module of defined functions: each function carries      *)
(* attributes and a body of basic blocks, each block a list of             *)
(* instructions.  The blocks of the f-th function are named                *)
(* (f-1)*NumBlocks + 1, ...; add/sub/mul and call instructions lower to    *)
(* one opaque statement each.                                              *)
(***************************************************************************)
MaxFuncs == 2

\* An instruction: its opcode and, for a br, its operands as llvmlite lists
\* them: <<target>>, or <<cond, false target, true target>>
Instruction(opcode, operands) == [opcode |-> opcode, operands |-> operands]

\* str(inst) of the i-th instruction of a block, the key of its SSA value
InstId(block_name, i) == block_name * 10 + i

\* The condition operands of a br i1: the constant true, the value of the
\* i-th instruction of a block, and a parameter of the function
TrueValue == ValueRef("int", IntTy(1), 1)

InstValue(block_name, i) == ValueRef("ssa", IntTy(1), InstId(block_name, i))

ArgValue == ValueRef("argument", IntTy(1), 0)

BlockName(f, k) == (f - 1) * NumBlocks + k

\* The bodies of the family, as lists of blocks of the f-th function
Bodies(f) ==
    LET B(k) == BlockName(f, k)
        call == Instruction("call", <<>>)
        ret == Instruction("ret", <<>>)
        br(k) == Instruction("br", <<B(k)>>)
    IN {<<<<call, ret>>>>,
        <<<<call, Instruction("load", <<>>), call, ret>>>>,
        <<<<Instruction("add", <<>>), br(2)>>, <<call, ret>>>>,
        <<<<call, br(2)>>, <<call, Instruction("fence", <<>>), Instruction("load", <<>>), ret>>>>,
        <<<<Instruction("br", <<TrueValue, B(3), B(2)>>)>>, <<call, br(4)>>,
          <<Instruction("mul", <<>>), Instruction("sub", <<>>), br(4)>>, <<call, ret>>>>,
        <<<<call, Instruction("br", <<InstValue(B(1), 1), B(3), B(2)>>)>>, <<call, br(4)>>,
          <<call, br(4)>>, <<ret>>>>,
        <<<<Instruction("br", <<ArgValue, B(3), B(2)>>)>>, <<call, br(3)>>, <<call, ret>>>>,
        <<<<br(3)>>, <<Instruction("br", <<InstValue(B(3), 1), B(3), B(4)>>)>>,
          <<call, br(2)>>, <<ret>>>>}

\* The attribute lists of the family, each attribute as the pairs
\* re.findall(r'"(\w+)"(?:="([^"]*)")?') finds in it
Attributes ==
    {<<>>,
     <<<<"entry_point", "">>, <<"required_num_qubits", "1">>>>,
     <<<<"qir_profiles", "entry_point">>>>}

\* build_main: attr_dict of a function
attr_dict(attributes) ==
    [k \in {attributes[i][1] : i \in DOMAIN attributes} |->
        LET i == CHOOSE i \in DOMAIN attributes :
                    /\ attributes[i][1] = k
                    /\ \A j \in DOMAIN attributes : j > i => attributes[j][1] # k
        IN IF attributes[i][2] # "" THEN attributes[i][2] ELSE "True"]

\* The exception build_main raises
NoMainError == "No main function defined!"

\* A lookup that keeps the last function carrying entry_point
FindMainFunc_Last(funcs) ==
    LET E == {f \in DOMAIN funcs : "entry_point" \in DOMAIN attr_dict(funcs[f].attributes)}
    IN IF E = {} THEN 0 ELSE CHOOSE f \in E : \A g \in E : g <= f

\* build_main: the for/else loop over module.functions; 0 when it runs to its
\* else branch
FindMainFunc(funcs) ==
    LET E == {f \in DOMAIN funcs : "entry_point" \in DOMAIN attr_dict(funcs[f].attributes)}
    IN IF E = {} THEN 0 ELSE CHOOSE f \in E : \A g \in E : f <= g

\* The exception build_instruction raises
UndefinedInstructionError(opcode) == "Undefined llvm instruction: " \o opcode

LLVM_INSTRUCTIONS == {"add", "sub", "mul"}

\* build_func_call / build_llvm_inst: record_variables(inst, ret_ident) with
\* the identifier the builder returned (the calls of the bodies return a value)
record_result(S, block_name, i) ==
    put(S.variables, InstId(block_name, i), IndexedIdentifier("tmp", InstId(block_name, i)))

\* build_branch; the condition is value_qir2qasm(operands[0]), which is None
\* for an SSA value that symbols.variables does not hold
build_branch(S, inst, block_name) ==
    IF Len(inst.operands) = 1
    THEN BranchInfo(None, <<inst.operands[1]>>)
    ELSE BranchInfo(IF value_qir2qasm(S, inst.operands[1]).value_ast = NoIdent
                    THEN None ELSE CondOf(block_name),
                    <<inst.operands[3], inst.operands[2]>>)

\* A build_instruction that lowers an instruction of any other opcode to nothing
build_instruction_Lenient(S, inst, block_name, i) ==
    CASE inst.opcode \in LLVM_INSTRUCTIONS \cup {"call"} ->
             [statements |-> <<Stmt(block_name, i)>>, has_br |-> FALSE,
              br_info |-> BranchInfo(None, <<>>), error |-> "",
              variables |-> record_result(S, block_name, i)]
      [] inst.opcode = "br" ->
             [statements |-> <<>>, has_br |-> TRUE,
              br_info |-> build_branch(S, inst, block_name), error |-> "", variables |-> S.variables]
      [] inst.opcode = "ret" ->
             [statements |-> <<>>, has_br |-> TRUE,
              br_info |-> BranchInfo(None, <<>>), error |-> "", variables |-> S.variables]
      [] OTHER ->
             [statements |-> <<>>, has_br |-> FALSE,
              br_info |-> BranchInfo(None, <<>>), error |-> "", variables |-> S.variables]

\* build_instruction on the i-th instruction of block block_name: the
\* statements, br_info (has_br: br_info is not None) and the exception raised
build_instruction(S, inst, block_name, i) ==
    CASE inst.opcode \in LLVM_INSTRUCTIONS ->
             [statements |-> <<Stmt(block_name, i)>>, has_br |-> FALSE,
              br_info |-> BranchInfo(None, <<>>), error |-> "",
              variables |-> record_result(S, block_name, i)]
      [] inst.opcode = "call" ->
             [statements |-> <<Stmt(block_name, i)>>, has_br |-> FALSE,
              br_info |-> BranchInfo(None, <<>>), error |-> "",
              variables |-> record_result(S, block_name, i)]
      [] inst.opcode = "br" ->
             [statements |-> <<>>, has_br |-> TRUE,
              br_info |-> build_branch(S, inst, block_name), error |-> "", variables |-> S.variables]
      [] inst.opcode = "ret" ->
             [statements |-> <<>>, has_br |-> TRUE,
              br_info |-> BranchInfo(None, <<>>), error |-> "", variables |-> S.variables]
      [] OTHER ->
             [statements |-> <<>>, has_br |-> FALSE,
              br_info |-> BranchInfo(None, <<>>),
              error |-> UndefinedInstructionError(inst.opcode),
              variables |-> S.variables]

InitMain ==
    /\ \E n \in 1..MaxFuncs :
         \E attrs \in [1..n -> Attributes] :
           \E bodies \in [1..n -> UNION {Bodies(f) : f \in 1..n}] :
             /\ \A f \in 1..n : bodies[f] \in Bodies(f)
             /\ module = [functions |->
                            [f \in 1..n |-> [name |-> "f" \o ToString(f),
                                             attributes |-> attrs[f],
                                             blocks |-> bodies[f]]]]
    /\ symbols = SymbolTable0
    /\ entry_block = 0
    /\ pc = "build_program"
    /\ is_updated = FALSE
    /\ rewrites = 0
    /\ last = <<>>
    /\ stream = <<>>
    /\ allocs = <<>>
    /\ locals = [func_decl_statements |-> <<>>, main_func |-> 0, block |-> 0, inst |-> 0,
                 statements |-> <<>>]

\* build_program up to the first build_block: build_func_declarations, then
\* build_main's search for the entry function
FindMain ==
    /\ pc = "build_program"
    /\ \E r \in {build_func_declarations(symbols, module.functions)} :
         \E f \in {FindMainFunc(module.functions)} :
          /\ symbols' = r.symbols
          /\ IF r.error # ""
             THEN /\ pc' = r.error
                  /\ UNCHANGED <<locals, entry_block>>
             ELSE IF f = 0
             THEN /\ pc' = NoMainError
                  /\ locals' = [locals EXCEPT !.func_decl_statements = r.statements]
                  /\ UNCHANGED entry_block
             ELSE /\ pc' = "build_block"
                  /\ entry_block' = BlockName(f, 1)
                  /\ locals' = [locals EXCEPT !.func_decl_statements = r.statements,
                                              !.main_func = f, !.block = 1, !.inst = 1]
    /\ UNCHANGED <<allocs, is_updated, rewrites, module, last, stream>>

\* build_block: one turn of its loop over the block's instructions; after the
\* last instruction the block's branch information and statements are recorded
\* and build_main goes on to the next block, or to build_control
BuildInstruction ==
    /\ pc = "build_block"
    /\ LET blocks == module.functions[locals.main_func].blocks
           block_name == BlockName(locals.main_func, locals.block)
           block == blocks[locals.block]
       IN \E r \in {build_instruction(symbols, block[locals.inst], block_name, locals.inst)} :
          LET statements == locals.statements \o r.statements
          IN IF r.error # ""
             THEN /\ pc' = r.error
                  /\ UNCHANGED <<symbols, locals>>
             ELSE IF locals.inst < Len(block)
             THEN /\ locals' = [locals EXCEPT !.inst = locals.inst + 1,
                                              !.statements = statements]
                  /\ symbols' = [symbols EXCEPT !.variables = r.variables]
                  /\ UNCHANGED pc
             ELSE IF ~r.has_br
             THEN /\ pc' = "AssertionError"
                  /\ UNCHANGED <<symbols, locals>>
             ELSE /\ symbols' = [symbols EXCEPT
                                   !.variables = r.variables,
                                   !.block_branchs = put(symbols.block_branchs, block_name,
                                                         r.br_info),
                                   !.block_statements = put(symbols.block_statements,
                                                            block_name, statements)]
                  /\ locals' = [locals EXCEPT !.block = locals.block + 1, !.inst = 1,
                                              !.statements = <<>>]
                  /\ pc' = IF locals.block < Len(blocks) THEN "build_block"
                           ELSE "build_control"
    /\ UNCHANGED <<allocs, entry_block, is_updated, rewrites, module, last, stream>>

\* build_program after build_main: the variable declarations, the statement
\* list, and Exporter.dump's printer.visit
EmitProgram ==
    /\ pc = "returned"
    /\ stream' = Program(build_var_declarations(symbols) \o locals.func_decl_statements
                         \o last)
    /\ pc' = "done"
    /\ UNCHANGED <<locals, allocs, symbols, entry_block, is_updated, rewrites, module, last>>

NextMain ==
    \/ FindMain
    \/ BuildInstruction
    \/ BuildCFG
    \/ SeqStep
    \/ SeqReturn
    \/ If1Step
    \/ If1Return
    \/ BuildMainReturn
    \/ EmitProgram

SpecMain == InitMain /\ [][NextMain]_vars

(***************************************************************************)
(* Errors of the translation                                               *)
(***************************************************************************)
\* The types of the extern's signature
SignatureTypes == {Extern.ret} \cup {Extern.args[k] : k \in DOMAIN Extern.args}

IsPtrToPtr(tp) == tp.kind = "pointer" /\ tp.elem[1].kind = "pointer"

RECURSIVE Innermost(_)
Innermost(tp) == IF tp.kind = "pointer" THEN Innermost(tp.elem[1]) ELSE tp

\* The kinds type_qir2qasm has a branch for, pointers aside
MappedKinds == {"void", "integer", "struct"} \cup DOMAIN FloatBitWidths

TypeErrors == {PtrToPtrError} \cup {UndefinedTypeError(tp.kind) : tp \in {ArrayTy}}

NothingEmitted == stream = <<>> /\ locals.func_decl_statements = <<>> /\ locals.statements = <<>>

\* C11 as stated: type-mapping any pointer whose pointee is a pointer fails with
\* the pointer-to-pointer error, and a translation in which that error is raised
\* writes nothing
C11_PtrToPtrError ==
    /\ \A tp \in SignatureTypes : IsPtrToPtr(tp) => type_qir2qasm(tp)[3] = PtrToPtrError
    /\ pc = PtrToPtrError => NothingEmitted

\* C11 amended: type-mapping a pointer whose pointee is a pointer fails, with the
\* pointer-to-pointer error when the innermost pointee has a mapped kind and with
\* the undefined-type error of the innermost pointee's kind otherwise; a
\* translation whose extern has such a type never gets past the function
\* declarations (a pointer-to-pointer return type is the error it aborts with),
\* and a translation in which either error is raised writes nothing
C11_PtrToPtrAborts ==
    /\ \A tp \in SignatureTypes :
          IsPtrToPtr(tp) =>
              type_qir2qasm(tp)[3] = IF Innermost(tp).kind \in MappedKinds
                                     THEN PtrToPtrError
                                     ELSE UndefinedTypeError(Innermost(tp).kind)
    /\ (pc # "build_func_declarations" /\ \E tp \in SignatureTypes : IsPtrToPtr(tp))
          => /\ pc \in TypeErrors \cup {TooMuchReturnError}
             /\ IsPtrToPtr(Extern.ret) => pc = type_qir2qasm(Extern.ret)[3]
    /\ pc \in TypeErrors => NothingEmitted

\* The translation aborted on a pointer-to-pointer parameter that follows a
\* well-typed one
C11_Witness ==
    /\ pc = PtrToPtrError
    /\ ~IsPtrToPtr(Extern.ret)
    /\ Len(Extern.args) = 2
    /\ ~IsPtrToPtr(Extern.args[1])
    /\ IsPtrToPtr(Extern.args[2])
    /\ NothingEmitted

\* A pointer to a classical value: its mapped type is a ClassicalType
ClassicalPointer(tp) ==
    /\ tp.kind = "pointer"
    /\ \/ tp.elem[1].kind \in {"integer"} \cup DOMAIN FloatBitWidths
       \/ tp.elem[1] = StructTy("Result")

\* A return type that is neither void nor a qubit
ReturnsValue(tp) == tp.kind # "void" /\ Innermost(tp) # StructTy("Qubit")

\* The result channels the extern's signature implies
ResultChannels ==
    (IF ReturnsValue(Extern.ret) THEN 1 ELSE 0)
    + Cardinality({k \in DOMAIN Extern.args : ClassicalPointer(Extern.args[k])})

WellTyped == \A tp \in SignatureTypes : type_qir2qasm(tp)[3] = ""

EntryFunctions ==
    {f \in DOMAIN module.functions :
        \E i \in DOMAIN module.functions[f].attributes :
            module.functions[f].attributes[i][1] = "entry_point"}

FirstEntryFunction == CHOOSE f \in EntryFunctions : \A g \in EntryFunctions : f <= g

BlockNames(f) == {BlockName(f, k) : k \in DOMAIN module.functions[f].blocks}

\* The blocks statements were lowered for: those recorded and the one in work
LoweredBlocks ==
    DOMAIN symbols.block_statements
    \cup (IF locals.statements # <<>> THEN {locals.statements[1].label[1]} ELSE {})

\* C13: when no function carries entry_point the translation aborts with the
\* missing-entry-function error, with block_statements and block_branchs empty,
\* no CFG and nothing emitted, and it aborts so in no other case; when some
\* function carries it, only blocks of the first such function in module order
\* are lowered, the entry block is that function's first block, and when
\* build_control starts every block of that function has been lowered
C13_EntryFunction ==
    /\ (EntryFunctions = {} /\ pc # "build_program")
          => /\ pc = NoMainError
             /\ symbols.block_statements = EmptyMap
             /\ symbols.block_branchs = EmptyMap
             /\ symbols.cfg = DiGraph({}, {})
             /\ {locals.main_func, locals.block} = {0}
             /\ locals.statements = <<>>
             /\ stream = <<>>
    /\ pc = NoMainError => EntryFunctions = {}
    /\ (EntryFunctions # {} /\ pc # "build_program")
          => /\ locals.main_func = FirstEntryFunction
             /\ entry_block = BlockName(FirstEntryFunction, 1)
             /\ LoweredBlocks \subseteq BlockNames(FirstEntryFunction)
             /\ DOMAIN symbols.block_branchs \subseteq BlockNames(FirstEntryFunction)
             /\ pc = "build_control"
                   => /\ DOMAIN symbols.block_statements = BlockNames(FirstEntryFunction)
                      /\ DOMAIN symbols.block_branchs = BlockNames(FirstEntryFunction)

\* Two functions carry entry_point and the blocks of the first are lowered
C13_Witness ==
    /\ Cardinality(EntryFunctions) = 2
    /\ pc = "build_control"
    /\ DOMAIN symbols.block_statements = BlockNames(1)
    /\ Cardinality(BlockNames(1)) > 1

\* The instructions of the entry function in lowering order, as <<block, index>>
RECURSIVE Flatten(_, _)
Flatten(blocks, k) ==
    IF k > Len(blocks) THEN <<>>
    ELSE [i \in DOMAIN blocks[k] |-> <<k, i>>] \o Flatten(blocks, k + 1)

DefinedOpcodes == {"add", "sub", "mul", "call", "br", "ret"}

\* The opcode of the first instruction of the entry function, in lowering
\* order, that is none of add, sub, mul, call, br, ret; "" if there is none
FirstUndefinedOpcode ==
    LET blocks == module.functions[FirstEntryFunction].blocks
        order == Flatten(blocks, 1)
        U == {j \in DOMAIN order :
                 blocks[order[j][1]][order[j][2]].opcode \notin DefinedOpcodes}
    IN IF U = {} THEN ""
       ELSE LET j == CHOOSE j \in U : \A h \in U : j <= h
            IN blocks[order[j][1]][order[j][2]].opcode

UndefinedInstructionErrors == {UndefinedInstructionError(op) : op \in {"load", "fence"}}

\* C14: a translation whose entry function contains an instruction with an
\* opcode other than add, sub, mul, call, br, ret never gets past the lowering
\* of the blocks: it aborts with the undefined-instruction error naming the
\* opcode of the first such instruction, and emits nothing, whatever was
\* lowered before; the error is raised in no other translation
C14_UndefinedInstruction ==
    /\ (EntryFunctions # {} /\ FirstUndefinedOpcode # "")
          => /\ pc \in {"build_program", "build_block",
                        UndefinedInstructionError(FirstUndefinedOpcode)}
             /\ stream = <<>>
    /\ pc \in UndefinedInstructionErrors
          => /\ EntryFunctions # {}
             /\ pc = UndefinedInstructionError(FirstUndefinedOpcode)
             /\ stream = <<>>

\* The translation aborted in the second block, after statements of both blocks
\* were lowered
C14_Witness ==
    /\ pc = UndefinedInstructionError("fence")
    /\ symbols.block_statements # EmptyMap
    /\ locals.statements # <<>>
    /\ stream = <<>>

(***************************************************************************)
(* Invariants of structuring                                               *)
(***************************************************************************)
\* C15: after every structuring rewrite the key set of block_statements, the
\* key set of block_branchs and the node set of the working CFG are equal
C15_MapsMatchGraph ==
    /\ DOMAIN symbols.block_statements = symbols.cfg.nodes
    /\ DOMAIN symbols.block_branchs = symbols.cfg.nodes

TargetSet(br_info) == {br_info.branch_targets[i] : i \in DOMAIN br_info.branch_targets}

\* C16: in the initial CFG, after every rewrite of the five patterns and after
\* every isolate_incoming_edge, every node of the working CFG has branch
\* metadata, and its successors in the graph are exactly the blocks its
\* branch_targets name; so the targets of a live block are live
C16_EdgesMatchTargets ==
    \A n \in symbols.cfg.nodes :
        /\ n \in DOMAIN symbols.block_branchs
        /\ successors(symbols.cfg, n) = TargetSet(symbols.block_branchs[n])
        /\ TargetSet(symbols.block_branchs[n]) \subseteq symbols.cfg.nodes

\* An edge was isolated, the copy is live, and rewrites left a conditional and
\* a loop in the statement lists of live nodes
C16_Witness ==
    /\ pc = "idle"
    /\ symbols.tmp_block_num > 0
    /\ NumBlocks + 1 \in symbols.cfg.nodes
    /\ \E n, k \in symbols.cfg.nodes :
          /\ \E i \in DOMAIN symbols.block_statements[n] :
                symbols.block_statements[n][i].kind = "if"
          /\ \E j \in DOMAIN symbols.block_statements[k] :
                symbols.block_statements[k][j].kind = "while"

\* The roles whose nodes a pattern's rewrite deletes
DeletedRoles(p) ==
    CASE p = "if1" -> {"B", "C"}
      [] p = "while2" -> {}
      [] OTHER -> {"B"}

\* C17: whenever a pattern matches the working CFG, every node its rewrite
\* would delete has A as its only predecessor, the edges of the graph among
\* the matched nodes are exactly the template's edges, and no live block
\* outside the match names a deleted node among its branch targets
C17_DeletedNodesPrivate ==
    \A p \in DOMAIN Patterns :
      \A m \in matching(Patterns[p], symbols.cfg) :
        LET matched == {m[r] : r \in Patterns[p].roles}
            deleted == {m[r] : r \in DeletedRoles(p)}
        IN /\ \A b \in deleted :
                 /\ predecessors(symbols.cfg, b) = {m["A"]}
                 /\ in_degree(symbols.cfg, b) = 1
                 /\ \A x \in symbols.cfg.nodes \ matched :
                       b \notin TargetSet(symbols.block_branchs[x])
           /\ {e \in symbols.cfg.edges : e[1] \in matched /\ e[2] \in matched}
                 = {<<m[e[1]], m[e[2]]>> : e \in Patterns[p].edges}

\* A rewrite deleted a node of a CFG that has nodes outside the match, and a
\* pattern matches again
C17_Witness ==
    /\ rewrites >= 1
    /\ pc \in DOMAIN Patterns
    /\ \E m \in matching(Patterns[pc], symbols.cfg) :
          /\ DeletedRoles(pc) # {}
          /\ symbols.cfg.nodes \ {m[r] : r \in Patterns[pc].roles} # {}

\* build_control has returned
Exited == pc \in {"assert", "returned", "AssertionError", "done"}

RewriteBound ==
    /\ rewrites <= NBlocks - 1
    /\ Exited => /\ matching(SeqPattern, symbols.cfg) = {}
                 /\ matching(IfPattern1, symbols.cfg) = {}

\* C18: on the CFG of a module of N blocks the loop of build_control makes at
\* most N - 1 rewrites and terminates, and when it has exited neither
\* SeqPattern nor IfPattern1 matches the CFG
C18_BuildControlTerminates == []RewriteBound /\ <>Exited

\* The loop exited after an if rewrite and, in a later pass, a sequence rewrite
\* on a module of four blocks
C18_Witness ==
    /\ pc = "assert"
    /\ NBlocks = 4
    /\ rewrites = 2
    /\ symbols.cfg.nodes = {1}
    /\ NumIfs(symbols.block_statements[1]) = 1

\* The symbol table build_control starts its loop with
Symbols0 ==
    [SymbolTable0 EXCEPT
       !.block_statements = [b \in DOMAIN module |-> BlockStatements0(b)],
       !.block_branchs = module,
       !.cfg = BuildCfg(module)]

\* The symbol tables in which the maximal sequences of Sequence and If
\* full-join rewrites from S end, whichever match each rewrite takes
RECURSIVE NormalForms(_)
NormalForms(S) ==
    LET R == {SeqRewrite(S, m) : m \in matching(SeqPattern, S.cfg)}
             \cup {If1Rewrite(S, m) : m \in matching(IfPattern1, S.cfg)}
    IN IF R = {} THEN {S} ELSE UNION {NormalForms(T) : T \in R}

\* C19 as stated: all maximal sequences of Sequence and If full-join rewrites
\* from the module's CFG end with the same CFG node set and the same statement
\* list for the entry block
C19_SameNodeSet ==
    \A a, b \in NormalForms(Symbols0) :
        /\ a.cfg.nodes = b.cfg.nodes
        /\ a.block_statements[1] = b.block_statements[1]

\* C19 amended: all maximal sequences of Sequence and If full-join rewrites
\* from the module's CFG end with the same number of CFG nodes and the same
\* statement list for the entry block, and with the node set {entry block} if
\* one of them does; build_control ends in one of these symbol tables, so the
\* translations of a module all fail the single-node assertion or all emit the
\* same program
C19_Confluent ==
    LET NF == NormalForms(Symbols0)
    IN /\ \A a, b \in NF :
             /\ Cardinality(a.cfg.nodes) = Cardinality(b.cfg.nodes)
             /\ a.block_statements[1] = b.block_statements[1]
             /\ a.cfg.nodes = {1} => b.cfg.nodes = {1}
       /\ Exited => \E a \in NF : /\ a.cfg = symbols.cfg
                                  /\ a.block_statements = symbols.block_statements
       /\ pc = "done" => \A a \in NF : stream = Program(a.block_statements[1])

\* build_control ended on a module whose rewrites could be made in more than
\* one order and with more than one role binding
C19_Witness ==
    /\ pc = "done"
    /\ rewrites >= 2
    /\ NumIfs(symbols.block_statements[1]) = 1
    /\ Cardinality(matching(IfPattern1, Symbols0.cfg)) >= 2

\* The labels of the original statements in a statement list, in order, those
\* nested in the arms of conditionals and in loop bodies included
RECURSIVE FlatLabels(_)
FlatLabels(stmts) ==
    IF stmts = <<>> THEN <<>>
    ELSE LET s == Head(stmts)
         IN (CASE s.kind = "stmt" -> <<s.label>>
               [] s.kind = "if" -> FlatLabels(s.block) \o FlatLabels(s.else_block)
               [] OTHER -> FlatLabels(s.block))
            \o FlatLabels(Tail(stmts))

\* The part of a label sequence that comes from original block b
LabelsOf(labels, b) == SelectSeq(labels, LAMBDA l : l[1] = b)

\* C20: as long as only Sequence, If full-join and If-only rewrites were made,
\* the statements of every original block are found, nested statements
\* included, in the statement list of exactly one live CFG node, each exactly
\* once and in their original order
C20_StatementsPreserved ==
    locals <= 1 =>
        \A b \in DOMAIN module :
            LET own == [i \in DOMAIN BlockStatements0(b) |-> <<b, i>>]
                holders == {n \in symbols.cfg.nodes :
                               LabelsOf(FlatLabels(symbols.block_statements[n]), b) # <<>>}
            IN /\ own # <<>> => Cardinality(holders) = 1
               /\ \A n \in holders :
                     LabelsOf(FlatLabels(symbols.block_statements[n]), b) = own

\* An If-only rewrite and two Sequence rewrites folded a module of four blocks
\* into its entry block
C20_Witness ==
    /\ locals = 1
    /\ pc = "idle"
    /\ NBlocks = 4
    /\ rewrites = 3
    /\ symbols.cfg.nodes = {1}
    /\ NumIfs(symbols.block_statements[1]) = 1
    /\ Len(FlatLabels(symbols.block_statements[1])) = 4

(***************************************************************************)
(* The effect of one rewrite and of one isolation                          *)
(***************************************************************************)
\* The entries of map f other than those of the keys K are the same in g
SameExcept(f, g, K) ==
    /\ (DOMAIN f) \ K = (DOMAIN g) \ K
    /\ \A k \in (DOMAIN f) \ K : f[k] = g[k]

\* The effect of a WhilePattern1 rewrite of the two-node loop (A, B) from
\* symbol table S to symbol table T
While1Effect(S, T, A, B) ==
    LET st == S.block_statements
        br == S.block_branchs
        true_is_B == br[A].branch_targets[1] = B
        exit == IF true_is_B THEN br[A].branch_targets[2] ELSE br[A].branch_targets[1]
    IN /\ T.block_statements[A] =
             Append(st[A], WhileLoop(IF true_is_B THEN br[A].branch_condition
                                     ELSE UnaryNot(br[A].branch_condition),
                                     st[B] \o st[A]))
       /\ T.block_branchs[A] = BranchInfo(None, <<exit>>)
       /\ T.cfg.nodes = S.cfg.nodes \ {B}
       /\ T.cfg.edges = S.cfg.edges \ {<<A, B>>, <<B, A>>}
       /\ B \notin DOMAIN T.block_statements
       /\ B \notin DOMAIN T.block_branchs
       /\ SameExcept(st, T.block_statements, {A, B})
       /\ SameExcept(br, T.block_branchs, {A, B})

\* C21: a WhilePattern1 rewrite on a match (A, B) appends to A one while
\* statement with body B's statements then A's statements as they were and
\* with A's condition, negated when A's true target is the exit; A's metadata
\* becomes the unconditional branch to A's other successor; B's node, the
\* edges A->B and B->A and B's two map entries go; all else is unchanged
C21_While1Rewrite ==
    [][(pc = "while1" /\ rewrites' = rewrites + 1) =>
          \E m \in matching(WhilePattern1, symbols.cfg) :
              While1Effect(symbols, symbols', m["A"], m["B"])]_vars

\* A WhilePattern1 rewrite left a loop with a negated condition whose body
\* starts with statements of the deleted block, in a CFG with other nodes
C21_Witness ==
    /\ pc = "while1"
    /\ rewrites >= 1
    /\ Cardinality(symbols.cfg.nodes) >= 2
    /\ \E n \in symbols.cfg.nodes :
          LET st == symbols.block_statements[n]
          IN /\ st # <<>>
             /\ st[Len(st)].kind = "while"
             /\ Len(st[Len(st)].cond) = 2
             /\ st[Len(st)].block # <<>>
             /\ st[Len(st)].block[1].kind = "stmt"
             /\ st[Len(st)].block[1].label[1] # n

\* The while statements of a statement list, at any depth
RECURSIVE WhileStatements(_)
WhileStatements(list) ==
    IF list = <<>> THEN {}
    ELSE (IF list[1].kind = "while" THEN {list[1]} ELSE {})
         \cup WhileStatements(list[1].block) \cup WhileStatements(list[1].else_block)
         \cup WhileStatements(Tail(list))

\* The number of places of a statement list, at any depth, that hold w
RECURSIVE Occurrences(_, _)
Occurrences(w, list) ==
    IF list = <<>> THEN 0
    ELSE (IF list[1] = w THEN 1 ELSE 0)
         + Occurrences(w, list[1].block) + Occurrences(w, list[1].else_block)
         + Occurrences(w, Tail(list))

\* The effect of a WhilePattern2 rewrite of the self-loop of A from S to T
While2Effect(S, T, A) ==
    LET st == S.block_statements
        br == S.block_branchs
        true_is_A == br[A].branch_targets[1] = A
        exit == IF true_is_A THEN br[A].branch_targets[2] ELSE br[A].branch_targets[1]
        loop == WhileLoop(IF true_is_A THEN br[A].branch_condition
                          ELSE UnaryNot(br[A].branch_condition), st[A])
    IN /\ T.block_statements[A] = Append(st[A], loop)
       /\ Occurrences(loop, loop.block) = 0
       /\ T.block_branchs[A] = BranchInfo(None, <<exit>>)
       /\ T.cfg.nodes = S.cfg.nodes
       /\ T.cfg.edges = S.cfg.edges \ {<<A, A>>}
       /\ out_degree(T.cfg, A) = 1
       /\ \A m \in matching(WhilePattern2, T.cfg) : m["A"] # A
       /\ SameExcept(st, T.block_statements, {A})
       /\ SameExcept(br, T.block_branchs, {A})

\* C22 as stated: a While pass never adds an occurrence of a while statement
\* that an earlier pass appended
C22_NeverDuplicated ==
    [][(pc \in {"while1", "while2"} /\ rewrites' = rewrites + 1) =>
          \A n \in symbols.cfg.nodes :
              \A w \in WhileStatements(symbols.block_statements[n]) :
                  \A k \in symbols'.cfg.nodes :
                      Occurrences(w, symbols'.block_statements[k]) <= 1]_vars

\* C22: a WhilePattern2 rewrite on a self-looping block A appends to A one
\* while statement whose body is A's statement list as it was, which does not
\* hold the new statement; it removes only the self-edge and keeps the node
\* set; A then has out-degree 1 and WhilePattern2 no longer matches it
C22_While2Rewrite ==
    [][(pc = "while2" /\ rewrites' = rewrites + 1) =>
          \E m \in matching(WhilePattern2, symbols.cfg) :
              While2Effect(symbols, symbols', m["A"])]_vars

\* A WhilePattern2 rewrite, after an earlier rewrite, left a block that ends
\* with a loop, of negated condition, over all its earlier statements
C22_Witness ==
    /\ pc = "while2"
    /\ rewrites >= 2
    /\ \E n \in symbols.cfg.nodes :
          LET st == symbols.block_statements[n]
          IN /\ Len(st) >= 3
             /\ st[Len(st)].kind = "while"
             /\ Len(st[Len(st)].cond) = 2
             /\ st[Len(st)].block = SubSeq(st, 1, Len(st) - 1)
             /\ out_degree(symbols.cfg, n) = 1
             /\ in_degree(symbols.cfg, n) >= 1

\* The effect of isolate_incoming_edge on the edge (A, B) from S to T
IsolateEffect(S, T, A, B) ==
    LET st == S.block_statements
        br == S.block_branchs
        added == T.cfg.nodes \ S.cfg.nodes
    IN /\ S.cfg.nodes \subseteq T.cfg.nodes
       /\ Cardinality(added) = 1
       /\ \A c \in added :
            /\ c \notin DOMAIN st
            /\ c \notin DOMAIN br
            /\ T.block_statements[c] = st[B]
            /\ T.block_branchs[c] = BranchInfo(br[B].branch_condition, br[B].branch_targets)
            /\ T.block_branchs[A] =
                  BranchInfo(br[A].branch_condition,
                             [i \in DOMAIN br[A].branch_targets |->
                                 IF br[A].branch_targets[i] = B THEN c
                                 ELSE br[A].branch_targets[i]])
            /\ <<A, B>> \notin T.cfg.edges
            /\ <<A, c>> \in T.cfg.edges
            /\ \A P \in predecessors(S.cfg, B) \ {A} : <<P, B>> \in T.cfg.edges
            /\ successors(T.cfg, c) = successors(S.cfg, B)
            /\ in_degree(T.cfg, c) = 1
            /\ T.block_statements[B] = st[B]
            /\ T.block_branchs[B] = br[B]
            /\ successors(T.cfg, B) = successors(S.cfg, B)
            /\ T.cfg.edges = (S.cfg.edges \ {<<A, B>>}) \cup {<<A, c>>}
                                \cup {<<c, u>> : u \in successors(S.cfg, B)}
            /\ SameExcept(st, T.block_statements, {A, c})
            /\ SameExcept(br, T.block_branchs, {A, c})

SharedCandidates(G) ==
    {r \in find_while_pattern(G) : \E i \in DOMAIN r[2] : in_degree(G, r[2][i]) > 1}

\* What the scan of find_while_pattern gives for out-degree-2 block b when
\* the set deg2_G hands b out first, on the CFG build_control built (its
\* adjacency order is the order of branch_targets): the candidate of the
\* first successor whose chain holds b
RECURSIVE ScanSuccessors(_, _, _)
ScanSuccessors(S, b, i) ==
    LET tg == S.block_branchs[b].branch_targets
    IN IF i > Len(tg) THEN {}
       ELSE IF Chain(S.cfg, tg[i]) = <<>> THEN {}
       ELSE IF InSeq(b, Chain(S.cfg, tg[i]))
            THEN {<<b, SubSeq(Chain(S.cfg, tg[i]), 1, Len(Chain(S.cfg, tg[i])) - 1)>>}
       ELSE ScanSuccessors(S, b, i + 1)

\* Some scan order of deg2_G finds first a candidate that needs no isolation
FindsCleanCandidate(S) ==
    \E b \in S.cfg.nodes :
        /\ out_degree(S.cfg, b) = 2
        /\ \E r \in ScanSuccessors(S, b, 1) :
              \A i \in DOMAIN r[2] : in_degree(S.cfg, r[2][i]) <= 1

\* C24: once the first call of isolate_while_pattern on the CFG build_control
\* built has found a candidate and returned False, no while candidate of the
\* CFG has a body block of in-degree > 1
C24_IsolationComplete ==
    (/\ pc = "while1"
     /\ rewrites = 0
     /\ symbols.tmp_block_num = 0
     /\ FindsCleanCandidate(symbols)) => SharedCandidates(symbols.cfg) = {}

(***************************************************************************)
(* The phases of one translation                                           *)
(***************************************************************************)
\* C25: once build_control has built the CFG from the branch metadata, the
\* block-isolation pre-pass runs before any pass of pattern structuring
C25_IsolationBeforeStructuring ==
    [][pc = "build_control" => pc' \in {"isolate_if", "isolate_while"}]_vars

\* C26: the entry block, which has no predecessor in the initial CFG, stays a
\* node without predecessor under every rewrite and isolation, so a CFG of
\* one node consists of the entry block, whose statement list build_main reads
C26_EntrySurvives ==
    /\ entry_block \in symbols.cfg.nodes
    /\ predecessors(symbols.cfg, entry_block) = {}
    /\ entry_block \in DOMAIN symbols.block_statements
    /\ Cardinality(symbols.cfg.nodes) = 1 => symbols.cfg.nodes = {entry_block}

\* Rewrites of a module of four blocks ended with the entry block alone, its
\* statement list holding statements of another block and an if statement
C26_Witness ==
    /\ NBlocks = NumBlocks
    /\ rewrites >= 2
    /\ symbols.cfg.nodes = {entry_block}
    /\ \E i \in DOMAIN symbols.block_statements[entry_block] :
          symbols.block_statements[entry_block][i].kind = "if"
    /\ \E i \in DOMAIN symbols.block_statements[entry_block] :
          /\ symbols.block_statements[entry_block][i].kind = "stmt"
          /\ symbols.block_statements[entry_block][i].label[1] # entry_block

\* C27: every block's branch metadata has at most 2 targets and has a branch
\* condition exactly when it has 2 targets
C27_ConditionIffTwoTargets ==
    \A b \in DOMAIN symbols.block_branchs :
        LET br_info == symbols.block_branchs[b]
        IN /\ Len(br_info.branch_targets) <= 2
           /\ (br_info.branch_condition # None) <=> (Len(br_info.branch_targets) = 2)

(***************************************************************************)
(* Lowering and structuring over one symbol table: the lowering of the     *)
(* call programs and the passes on the branching modules                   *)
(***************************************************************************)
InitTranslation == InitLower \/ InitStructure

NextTranslation == NextLower \/ NextStructure

SpecTranslation == InitTranslation /\ [][NextTranslation]_vars

\* Counter map g has every key of f, with a value that is not smaller
NotDecreased(f, g) ==
    /\ DOMAIN f \subseteq DOMAIN g
    /\ \A k \in DOMAIN f : g[k] >= f[k]

\* What lowering records in symbol table S is the same in T
LoweredSymbolsSame(S, T) ==
    /\ T.structs_num = S.structs_num
    /\ T.structs_tmp_num = S.structs_tmp_num
    /\ T.classical_tmp_num = S.classical_tmp_num
    /\ T.classical_tmp = S.classical_tmp
    /\ T.variables = S.variables
    /\ T.io_variables = S.io_variables
    /\ T.structs = S.structs
    /\ T.functions = S.functions
    /\ T.instructions = S.instructions

StructuringPcs == {"idle", "seq", "if1", "if2", "while1", "while2"}

\* C28: no step of lowering decreases a sizing counter (structs_num,
\* structs_tmp_num, classical_tmp_num), and a structuring rewrite or an
\* isolation leaves the counters, the SSA bindings, the I/O lists and the
\* struct, function and instruction registries as they are
C28_CountersAndFrame ==
    [][/\ NotDecreased(symbols.structs_num, symbols'.structs_num)
       /\ NotDecreased(symbols.structs_tmp_num, symbols'.structs_tmp_num)
       /\ NotDecreased(symbols.classical_tmp_num, symbols'.classical_tmp_num)
       /\ pc \in StructuringPcs => LoweredSymbolsSame(symbols, symbols')
       /\ rewrites' = rewrites + 1 => symbols'.tmp_block_num = symbols.tmp_block_num]_vars

\* Lowering has raised a struct counter, a struct temporary counter and a
\* classical temporary counter; the emitted program declares their arrays
C28_Witness ==
    /\ pc = "done"
    /\ \E k \in DOMAIN symbols.structs_num : symbols.structs_num[k] >= 2
    /\ \E k \in DOMAIN symbols.structs_tmp_num : symbols.structs_tmp_num[k] >= 1
    /\ \E k \in DOMAIN symbols.classical_tmp_num : symbols.classical_tmp_num[k] >= 1

(***************************************************************************)
(* The arrays of the emitted program                                       *)
(***************************************************************************)
\* The indexed identifiers, as <<array name, index>>, of an expression or a
\* statement of the lowered body
RECURSIVE IndexedIn(_)
IndexedIn(x) ==
    CASE x.cls \in {"IndexedIdentifier", "IndexExpression"} -> {<<x.name, x.index>>}
      [] x.cls = "QuantumMeasurementStatement" -> IndexedIn(x.qubit) \cup IndexedIn(x.target)
      [] x.cls = "QuantumReset" -> IndexedIn(x.qubits)
      [] x.cls = "FunctionCall" ->
             UNION {IndexedIn(x.arguments[i]) : i \in DOMAIN x.arguments}
      [] x.cls = "ClassicalAssignment" -> IndexedIn(x.lvalue) \cup IndexedIn(x.rvalue)
      [] x.cls = "ExpressionStatement" -> IndexedIn(x.expression)
      [] OTHER -> {}

\* The indexed identifiers lowering handed out: those of the body's
\* statements and those bound to SSA values
HandedOut ==
    UNION {IndexedIn(locals.statements[i]) : i \in DOMAIN locals.statements}
    \cup UNION {IndexedIn(symbols.variables[k]) : k \in DOMAIN symbols.variables}

\* The arrays of the symbol table, as <<array name, size counter>>
SizedArrays ==
    {<<symbols.structs[k].name \o "s", symbols.structs_num[symbols.structs[k].name]>> :
        k \in DOMAIN symbols.structs}
    \cup {<<symbols.structs[k].name \o "s_tmp",
            symbols.structs_tmp_num[symbols.structs[k].name]>> : k \in DOMAIN symbols.structs}
    \cup {<<symbols.classical_tmp[k].name \o "_tmp",
            symbols.classical_tmp_num[symbols.classical_tmp[k].name]>> :
             k \in DOMAIN symbols.classical_tmp}

\* The sizes with which the emitted program declares an array of this name
DeclaredSizes(name) ==
    {IF ProgramStatements[i].cls = "QubitDeclaration" THEN ProgramStatements[i].size
     ELSE ProgramStatements[i].type.size :
        i \in {j \in DOMAIN ProgramStatements :
                  /\ IsArrayDeclaration(ProgramStatements[j])
                  /\ ProgramStatements[j].identifier.name = name}}

\* C29: in an emitted program an array is declared exactly when its final
\* size counter is positive, with that counter as its size, and every indexed
\* identifier handed out during lowering names a declared array and has an
\* index below the declared size
C29_ArraysDeclaredAndSized ==
    pc = "done" =>
        /\ \A a \in SizedArrays :
              DeclaredSizes(a[1]) = IF a[2] > 0 THEN {a[2]} ELSE {}
        /\ \A i \in DOMAIN ProgramStatements :
              IsArrayDeclaration(ProgramStatements[i]) =>
                 \E a \in SizedArrays : a[1] = ProgramStatements[i].identifier.name
        /\ \A h \in HandedOut :
              /\ h[2] >= 0
              /\ \E n \in DeclaredSizes(h[1]) : h[2] < n

\* An emitted program whose body uses element 1 of a value array, a struct
\* temporary and a classical temporary, with an array that stays undeclared
C29_Witness ==
    /\ pc = "done"
    /\ \E h \in HandedOut : h[1] \in ValueArrayNames /\ h[2] = 1
    /\ \E h \in HandedOut : h[1] \in ArrayNames \ ValueArrayNames
    /\ \E h \in HandedOut : h[1] \notin ArrayNames
    /\ \E a \in SizedArrays : a[2] = 0

\* C30: once the declarations are built, every classical temporary that
\* alloc_tmp_var returned belongs to an array declared with the element type
\* of its allocation call, the bit width included
C30_TemporaryTypeDeclared ==
    pc = "declared" =>
        \A k \in DOMAIN allocs :
            (allocs[k].fn = "alloc_tmp_var" /\ allocs[k].type_ast.cls # "str") =>
                \E i \in DOMAIN last :
                    /\ last[i].cls = "ClassicalDeclaration"
                    /\ last[i].identifier.name = allocs[k].var_ast.name
                    /\ last[i].type.cls = "ArrayType"
                    /\ last[i].type.base = <<allocs[k].type_ast.cls, allocs[k].type_ast.size>>

====
